---- MODULE Spec2Model ----
(***************************************************************************)
(* Sentence-level speaker attribution engine of                            *)
(* src/src/enhanced_speaker_attribution.py (class                          *)
(* EnhancedSpeakerAttribution): timing estimation, overlap voting and      *)
(* consecutive-segment merge.                                              *)
(*                                                                         *)
(* Strings are sequences of one-character strings.  Times are exact: the  *)
(* estimator's times are rationals with denominator total_chars and are    *)
(* stored as their numerators; the voting and merge times are integer      *)
(* multiples of a tick.                                                    *)
(***************************************************************************)
EXTENDS Integers, Sequences, FiniteSets, TLC

VARIABLES
    pc,               \* "timing" | "vote" | "merge" : call pending; "<name>_done" : returned
    sentences,        \* _estimate_sentence_timings: argument sentences
    total_duration,   \* _estimate_sentence_timings: argument total_duration (seconds)
    sentence_timings, \* _estimate_sentence_timings: returned list
    start_time,       \* _find_speaker_for_time_segment: argument start_time
    end_time,         \* _find_speaker_for_time_segment: argument end_time
    raw_diarization,  \* _find_speaker_for_time_segment: argument raw_diarization
    speaker,          \* _find_speaker_for_time_segment: returned speaker
    segments,         \* _merge_consecutive_same_speaker: argument segments
    merge_i,          \* _merge_consecutive_same_speaker: loop index i (1-based here)
    current_segment,  \* _merge_consecutive_same_speaker: the open segment
    merged,           \* _merge_consecutive_same_speaker: list merged, returned at the end
    pass,             \* 1: call on the input units; 2: call on the first call's result
    first_merged,     \* result of the first call, kept while the second call runs
    full_text,        \* _split_into_sentences / _create_improved_attribution: argument text
    parts,            \* _split_into_sentences: the list returned by re.split
    entry,            \* "create": _create_improved_attribution called directly;
                      \* "improve": called by improve_speaker_attribution
    content,          \* improve_speaker_attribution: the transcription file's content
    output_file,      \* improve_speaker_attribution: TRUE iff an output_file is given
    attr_i,           \* _create_improved_attribution: loop index i (1-based here)
    attributed_segments, \* _create_improved_attribution: list attributed_segments
    merged_segments,  \* _create_improved_attribution: returned list
    improved_content, \* improve_speaker_attribution: returned text
    file_written,     \* improve_speaker_attribution: TRUE iff output_file was written
    transcript_text,  \* apply_speaker_labels_to_transcript: argument transcript_text
    diarization_segments, \* apply_speaker_labels_to_transcript: argument (None or a list)
    audio_duration,   \* apply_speaker_labels_to_transcript: argument audio_duration
    words,            \* apply_speaker_labels_to_transcript: transcript_text.split()
    word_index,       \* apply_speaker_labels_to_transcript: word_index
    current_time,     \* estimated time of the last word, as a numerator over len(words)
    speaker_for_word, \* speaker found for the last word ("None" if none)
    current_speaker,  \* apply_speaker_labels_to_transcript: current_speaker
    current_text,     \* apply_speaker_labels_to_transcript: current_text
    result_lines,     \* apply_speaker_labels_to_transcript: result_lines
    attributed_transcript, \* apply_speaker_labels_to_transcript: returned text
    libs_available,   \* process_audio_file: AUDIO_LIBS_AVAILABLE and TRANSFORMERS_AVAILABLE
    input_exists,     \* process_audio_file: os.path.exists(input_file)
    enhance_audio_enabled, \* process_audio_file: argument
    save_enhanced_audios,  \* process_audio_file: argument
    speaker_attribution,   \* process_audio_file: argument
    enhanced_audio_path,   \* process_audio_file: "None", "saved" or "temp"
    temp_exists,      \* TRUE while the file made by mkstemp exists
    diarization_result,    \* process_audio_file: local diarization_segments
    duration_result,  \* process_audio_file: local audio_duration (None or a number)
    transcription_result,  \* process_audio_file: transcription_result
    main_text,        \* process_audio_file: main_text
    base_transcript_text,  \* process_audio_file: base_transcript_text
    attribution_applied,   \* TRUE once the branch of line 1470 was taken
    warnings,         \* warnings printed by process_audio_file
    written,          \* files written under output/transcripts, in order
    raised,           \* the step whose exception reached line 1617, if any
    process_return,   \* process_audio_file: "running", then "True" or "False"
    call_fn,          \* engine calls: the method each of the two invocations runs
    call_args,        \* engine calls: total_duration, start_time, end_time of each
    call_list,        \* engine calls: the input list of each (strings, or references)
    call_list0,       \* call_list as it was when the calls started
    heap,             \* the dict objects the input and output lists refer to
    heap0,            \* heap as it was when the calls started
    call_pc,          \* engine calls: position of each invocation
    call_i,           \* engine calls: loop index of each invocation
    call_locals,      \* engine calls: local variables of each invocation
    call_result,      \* engine calls: returned value of each invocation
    self_debug,       \* EnhancedSpeakerAttribution.debug, the only instance attribute
    import_result,    \* perform_speaker_diarization: what importing pyannote/torch does
    env_hf_token,     \* os.environ.get("HF_TOKEN")
    env_huggingface_token, \* os.environ.get("HUGGINGFACE_TOKEN")
    token_file,       \* hf_token.txt: missing, unreadable, or its kind of content
    hf_token,         \* perform_speaker_diarization: local hf_token
    pipeline_outcome, \* how far loading and running the pyannote pipeline got
    diarize_return,   \* perform_speaker_diarization: returned value (None or a list)
    diarize_raised,   \* the exception that left perform_speaker_diarization, if any
    mask_text,              \* argument text of the running or last call of mask_names_with_logging
    mask_filename,          \* its argument filename
    mask_sentences,         \* the local sentences of the call
    sentence_idx,           \* 0-based index of the next sentence of the loop
    masked_sentences,       \* the local masked_sentences
    replacement_counter,    \* the local replacement_counter
    masked_text,            \* what the last call returned, None until a call has returned
    log_heap,               \* the list objects: address -> entries
    replacement_log,        \* the closure variable: address of its list
    held_log,               \* the list a caller obtained from get_replacement_log
    held_snapshot           \* the entries that list had when it was obtained

vars == <<pc, sentences, total_duration, sentence_timings, start_time,
          end_time, raw_diarization, speaker, segments, merge_i, current_segment,
          merged, pass, first_merged, full_text, parts, entry, content, output_file,
          attr_i, attributed_segments, merged_segments, improved_content,
          file_written, transcript_text, diarization_segments, audio_duration,
          words, word_index, current_time, speaker_for_word, current_speaker,
          current_text, result_lines, attributed_transcript, libs_available,
          input_exists, enhance_audio_enabled, save_enhanced_audios,
          speaker_attribution, enhanced_audio_path, temp_exists,
          diarization_result, duration_result, transcription_result, main_text,
          base_transcript_text, attribution_applied, warnings, written, raised,
          process_return, call_fn, call_args, call_list, call_list0, heap, heap0,
          call_pc, call_i, call_locals, call_result, self_debug, import_result,
          env_hf_token, env_huggingface_token, token_file, hf_token,
          pipeline_outcome, diarize_return, diarize_raised, mask_text,
          mask_filename, mask_sentences, sentence_idx, masked_sentences,
          replacement_counter, masked_text, log_heap, replacement_log, held_log,
          held_snapshot>>

timingVars == <<sentences, total_duration, sentence_timings>>
voteVars == <<start_time, end_time, raw_diarization, speaker>>
mergeVars == <<segments, merge_i, current_segment, merged, pass, first_merged>>
splitVars == <<full_text, parts>>
\* the variables of the operations other than timing, voting and merge
pipelineVars == <<entry, content, output_file, attr_i, attributed_segments,
                  merged_segments, improved_content, file_written>>
uniformVars == <<transcript_text, diarization_segments, audio_duration, words,
                 word_index, current_time, speaker_for_word, current_speaker,
                 current_text, result_lines, attributed_transcript>>
processVars == <<libs_available, input_exists, enhance_audio_enabled,
                 save_enhanced_audios, speaker_attribution, enhanced_audio_path,
                 temp_exists, diarization_result, duration_result,
                 transcription_result, main_text, base_transcript_text,
                 attribution_applied, warnings, written, raised, process_return>>
engineVars == <<call_fn, call_args, call_list, call_list0, heap, heap0, call_pc,
                call_i, call_locals, call_result, self_debug>>
diarizeVars == <<import_result, env_hf_token, env_huggingface_token, token_file,
                 hf_token, pipeline_outcome, diarize_return, diarize_raised>>
maskerVars == <<mask_text, mask_filename, mask_sentences, sentence_idx,
                masked_sentences, replacement_counter, masked_text, log_heap,
                replacement_log, held_log, held_snapshot>>
extVars == <<splitVars, pipelineVars, uniformVars, processVars, engineVars, diarizeVars, maskerVars>>

----------------------------------------------------------------------------
(* Bounds of the explored inputs *)

MaxSentences == 3
MaxChars == 2
MaxDuration == 2
MaxTurns == 2
MaxTime == 2
MaxSegments == 3
MaxMergeTick == 5

NoResult == "none"

Chars == {"a", "b"}

Min(a, b) == IF a <= b THEN a ELSE b
Max(a, b) == IF a >= b THEN a ELSE b
Abs(a) == IF a >= 0 THEN a ELSE 0 - a

SeqsUpTo(S, n) == UNION {[1..k -> S] : k \in 0..n}

NoSegment == [start |-> 0, end |-> 0, speaker |-> NoResult, text |-> <<>>]

\* the merge variables while no merge call is modelled
MergeIdle ==
    /\ segments = <<>> /\ merge_i = 0 /\ current_segment = NoSegment
    /\ merged = <<>> /\ pass = 0 /\ first_merged = <<>>

\* the split variables while no split call is modelled
SplitIdle == full_text = <<>> /\ parts = <<>>

NoContent == [text |-> <<>>, turns |-> <<>>]

\* the pipeline variables while no pipeline call is modelled
PipelineIdle ==
    /\ entry = NoResult /\ content = NoContent /\ output_file = FALSE
    /\ attr_i = 0 /\ attributed_segments = <<>> /\ merged_segments = <<>>
    /\ improved_content = NoContent /\ file_written = FALSE

\* Python None as a speaker label
None == "None"

\* an optional list of turns: None, or a list
NoneSegments == [is_none |-> TRUE, turns |-> <<>>]
SomeSegments(turns) == [is_none |-> FALSE, turns |-> turns]

\* the uniform-strategy variables while no call is modelled
UniformIdle ==
    /\ transcript_text = <<>> /\ diarization_segments = NoneSegments
    /\ audio_duration = 0 /\ words = <<>> /\ word_index = 0 /\ current_time = 0
    /\ speaker_for_word = None /\ current_speaker = None /\ current_text = <<>>
    /\ result_lines = <<>> /\ attributed_transcript = <<>>

\* an optional audio duration: None, or a number
NoneDuration == [is_none |-> TRUE, value |-> 0]
SomeDuration(v) == [is_none |-> FALSE, value |-> v]

\* an optional transcription result: None, or a dict with its 'text'
NoneTranscription == [is_none |-> TRUE, text |-> <<>>]
SomeTranscription(t) == [is_none |-> FALSE, text |-> t]

\* no exception reached the handler of line 1617
NoRaise == "none"

\* the process_audio_file variables while no call is modelled
ProcessIdle ==
    /\ libs_available = TRUE /\ input_exists = TRUE
    /\ enhance_audio_enabled = FALSE /\ save_enhanced_audios = FALSE
    /\ speaker_attribution = FALSE /\ enhanced_audio_path = None
    /\ temp_exists = FALSE /\ diarization_result = NoneSegments
    /\ duration_result = NoneDuration /\ transcription_result = NoneTranscription
    /\ main_text = <<>> /\ base_transcript_text = <<>>
    /\ attribution_applied = FALSE /\ warnings = {} /\ written = <<>>
    /\ raised = NoRaise /\ process_return = NoResult

\* the two invocations of the engine that may run interleaved
Threads == {1, 2}

\* a reference to no object
NoAddr == <<0, "none", 0>>

\* the local variables of an invocation before it starts
NoLocals == [current_time |-> 0, acc |-> <<>>, current_segment |-> NoAddr, merged |-> <<>>]

NoArgs == [total_duration |-> 0, start_time |-> 0, end_time |-> 0]

\* the engine-call variables while no interleaved calls are modelled
EngineIdle ==
    /\ call_fn = [t \in Threads |-> NoResult]
    /\ call_args = [t \in Threads |-> NoArgs]
    /\ call_list = [t \in Threads |-> <<>>] /\ call_list0 = call_list
    /\ heap = <<>> /\ heap0 = <<>>
    /\ call_pc = [t \in Threads |-> NoResult]
    /\ call_i = [t \in Threads |-> 0]
    /\ call_locals = [t \in Threads |-> NoLocals]
    /\ call_result = [t \in Threads |-> <<>>]
    /\ self_debug = TRUE

\* the perform_speaker_diarization variables while no call is modelled
DiarizeIdle ==
    /\ import_result = "ok" /\ env_hf_token = None /\ env_huggingface_token = None
    /\ token_file = "missing" /\ hf_token = None /\ pipeline_outcome = "not loaded"
    /\ diarize_return = NoneSegments /\ diarize_raised = NoRaise

\* the masker variables while no masker is modelled
NoneText == [is_none |-> TRUE, text |-> <<>>]
SomeText(t) == [is_none |-> FALSE, text |-> t]
NoneLog == [is_none |-> TRUE, addr |-> 0]
SomeLog(a) == [is_none |-> FALSE, addr |-> a]
LogAddrs == 1..3
MaskerIdle ==
    /\ mask_text = <<>> /\ mask_filename = "" /\ mask_sentences = <<>>
    /\ sentence_idx = 0 /\ masked_sentences = <<>> /\ replacement_counter = 1
    /\ masked_text = NoneText /\ log_heap = [a \in LogAddrs |-> <<>>]
    /\ replacement_log = 1 /\ held_log = NoneLog /\ held_snapshot = <<>>

ExtIdle == SplitIdle /\ PipelineIdle /\ UniformIdle /\ ProcessIdle /\ EngineIdle /\ DiarizeIdle /\ MaskerIdle

SentenceStrings == SeqsUpTo(Chars, MaxChars)
Durations == (0 - MaxDuration)..MaxDuration

Speakers == {"SPEAKER_00", "SPEAKER_01"}
Times == 0..MaxTime
\* diarization turns; a turn with end < start is a possible (malformed) record
Turns == [start : Times, end : Times, speaker : Speakers]

----------------------------------------------------------------------------
(* _estimate_sentence_timings *)

\* total_chars taken as the length of the sentences joined by single spaces
RECURSIVE TotalChars_joined(_)
TotalChars_joined(ss) ==
    IF ss = <<>> THEN 0
    ELSE Len(Head(ss)) + (IF Tail(ss) = <<>> THEN 0 ELSE 1) + TotalChars_joined(Tail(ss))

\* total_chars = sum(len(s) for s in sentences)
RECURSIVE TotalChars(_)
TotalChars(ss) ==
    IF ss = <<>> THEN 0 ELSE Len(Head(ss)) + TotalChars(Tail(ss))

\* scaled_duration = (len(sentence) / 15.0) * (total_duration / (total_chars / 15.0))
\* = len(sentence) * total_duration / total_chars; as a numerator over total_chars.
ScaledDuration(sentence, D) == Len(sentence) * D

\* the loop without "current_time = end_time": every unit starts at 0
RECURSIVE TimingLoop_noAdvance(_, _, _, _, _)
TimingLoop_noAdvance(ss, D, i, cur, acc) ==
    IF i > Len(ss) THEN acc
    ELSE LET end == Min(cur + ScaledDuration(ss[i], D), D * TotalChars(ss))
         IN  TimingLoop_noAdvance(ss, D, i + 1, cur,
                        Append(acc, [sentence |-> ss[i], start |-> cur, end |-> end]))

\* the for loop of lines 227-238, from index i with current_time cur
RECURSIVE TimingLoop(_, _, _, _, _)
TimingLoop(ss, D, i, cur, acc) ==
    IF i > Len(ss) THEN acc
    ELSE LET end == Min(cur + ScaledDuration(ss[i], D), D * TotalChars(ss))
         IN  TimingLoop(ss, D, i + 1, end,
                        Append(acc, [sentence |-> ss[i], start |-> cur, end |-> end]))

EstimateSentenceTimings(ss, D) ==
    IF TotalChars(ss) = 0 THEN <<>>
    ELSE TimingLoop(ss, D, 1, 0, <<>>)

InitTiming ==
    /\ pc = "timing"
    /\ sentences \in SeqsUpTo(SentenceStrings, MaxSentences)
    /\ total_duration \in Durations
    /\ sentence_timings = NoResult
    /\ start_time = 0 /\ end_time = 0 /\ raw_diarization = <<>> /\ speaker = NoResult
    /\ MergeIdle /\ ExtIdle

CallEstimateSentenceTimings ==
    /\ pc = "timing"
    /\ sentence_timings' = EstimateSentenceTimings(sentences, total_duration)
    /\ pc' = "timing_done"
    /\ UNCHANGED <<sentences, total_duration, voteVars, mergeVars, extVars>>

NextTiming == CallEstimateSentenceTimings

SpecTiming == InitTiming /\ [][NextTiming]_vars

----------------------------------------------------------------------------
(* Properties of the timing estimator *)

\* Times of sentence_timings are numerators over total_chars: D seconds is D * C.
TimingC == TotalChars(sentences)
TimingD == total_duration * TimingC
TimingReturned == pc = "timing_done"
NTimed == Len(sentence_timings)

\* C4 (span monotonicity): for every unit sequence and every duration D the
\* returned spans satisfy start_i <= start_{i+1}, start_i <= end_i and end_i <= D.
C4_SpanMonotonicity ==
    TimingReturned =>
        \A i \in 1..NTimed :
            /\ sentence_timings[i].start <= sentence_timings[i].end
            /\ sentence_timings[i].end <= TimingD
            /\ (i < NTimed => sentence_timings[i].start <= sentence_timings[i + 1].start)

\* C5 (timing guard): whenever the total character count is 0 or D <= 0 the
\* returned timed sequence is empty.
C5_TimingGuard ==
    (TimingReturned /\ (TimingC = 0 \/ total_duration <= 0)) => sentence_timings = <<>>

\* C6 (back-to-back layout): for C > 0 and D > 0 the result has one entry per
\* unit in the original order, the first start is 0, every end is
\* min(start_i + len_i / C * D, D) and every later start is the previous end.
C6_BackToBack ==
    (TimingReturned /\ TimingC > 0 /\ total_duration > 0) =>
        /\ NTimed = Len(sentences)
        /\ \A i \in 1..NTimed :
              /\ sentence_timings[i].sentence = sentences[i]
              /\ sentence_timings[i].start =
                    (IF i = 1 THEN 0 ELSE sentence_timings[i - 1].end)
              /\ sentence_timings[i].end =
                    Min(sentence_timings[i].start + Len(sentences[i]) * total_duration,
                        TimingD)

\* a call with several units of different lengths, one of them laid out after
\* a unit of positive duration
C6_Witness ==
    /\ TimingReturned /\ TimingC > 0 /\ total_duration > 0
    /\ NTimed = MaxSentences
    /\ \E i \in 2..NTimed :
          /\ sentence_timings[i].start > 0
          /\ sentence_timings[i].end > sentence_timings[i].start
          /\ Len(sentences[i]) # Len(sentences[1])

RECURSIVE SumDurations(_)
SumDurations(ts) ==
    IF ts = <<>> THEN 0
    ELSE (Head(ts).end - Head(ts).start) + SumDurations(Tail(ts))

\* C7 (duration conservation): for C > 0 and D > 0, in exact arithmetic the
\* unit durations sum to D, the last end equals D and the spans tile [0, D]
\* without a gap.
C7_DurationConservation ==
    (TimingReturned /\ TimingC > 0 /\ total_duration > 0) =>
        /\ NTimed > 0
        /\ SumDurations(sentence_timings) = TimingD
        /\ sentence_timings[1].start = 0
        /\ sentence_timings[NTimed].end = TimingD
        /\ \A i \in 1..(NTimed - 1) :
              sentence_timings[i + 1].start = sentence_timings[i].end

\* a call whose duration is shared by several units of positive length
C7_Witness ==
    /\ TimingReturned /\ TimingC > 0 /\ total_duration > 1
    /\ NTimed >= 2
    /\ \A i \in 1..NTimed : sentence_timings[i].end > sentence_timings[i].start
    /\ sentence_timings[NTimed].end = TimingD

----------------------------------------------------------------------------
(* _find_speaker_for_time_segment *)

\* overlap_end - overlap_start of lines 250-251 (may be negative)
OverlapDuration(st, en, seg) == Min(en, seg.end) - Max(st, seg.start)

\* the list built by lines 246-260: the turns with overlap_start < overlap_end
RECURSIVE OverlappingSegments(_, _, _)
OverlappingSegments(st, en, turns) ==
    IF turns = <<>> THEN <<>>
    ELSE LET seg == Head(turns)
             rest == OverlappingSegments(st, en, Tail(turns))
         IN  IF Max(st, seg.start) < Min(en, seg.end)
             THEN <<[speaker |-> seg.speaker,
                     overlap_duration |-> OverlapDuration(st, en, seg),
                     start |-> seg.start, end |-> seg.end]>> \o rest
             ELSE rest

\* a selection that takes the first element whatever the keys
ArgMax_first(keys) == 1

\* Python max(iterable, key=...): index of the first element with the largest key
RECURSIVE ArgMaxLoop(_, _, _)
ArgMaxLoop(keys, i, best) ==
    IF i > Len(keys) THEN best
    ELSE ArgMaxLoop(keys, i + 1, IF keys[i] > keys[best] THEN i ELSE best)

ArgMax(keys) == ArgMaxLoop(keys, 2, 1)

\* Python min(iterable, key=...): index of the first element with the smallest key
RECURSIVE ArgMinLoop(_, _, _)
ArgMinLoop(keys, i, best) ==
    IF i > Len(keys) THEN best
    ELSE ArgMinLoop(keys, i + 1, IF keys[i] < keys[best] THEN i ELSE best)

ArgMin(keys) == ArgMinLoop(keys, 2, 1)

\* a distance that looks at the start boundary only
NearestKey_startOnly(st, en, x) == Abs(x.start - st)

\* key of line 265: min(abs(x['start'] - start_time), abs(x['end'] - end_time))
NearestKey(st, en, x) == Min(Abs(x.start - st), Abs(x.end - en))

\* min() of an empty list raises ValueError
ValueError == "ValueError"

FindSpeakerForTimeSegment(st, en, turns) ==
    LET overlapping == OverlappingSegments(st, en, turns)
    IN  IF overlapping = <<>>
        THEN IF turns = <<>> THEN ValueError
             ELSE turns[ArgMin([i \in 1..Len(turns) |-> NearestKey(st, en, turns[i])])].speaker
        ELSE overlapping[ArgMax([i \in 1..Len(overlapping) |->
                                    overlapping[i].overlap_duration])].speaker

InitVote ==
    /\ pc = "vote"
    /\ start_time \in Times
    /\ end_time \in Times
    /\ raw_diarization \in SeqsUpTo(Turns, MaxTurns)
    /\ speaker = NoResult
    /\ sentences = <<>> /\ total_duration = 0 /\ sentence_timings = NoResult
    /\ MergeIdle /\ ExtIdle

CallFindSpeakerForTimeSegment ==
    /\ pc = "vote"
    /\ speaker' = FindSpeakerForTimeSegment(start_time, end_time, raw_diarization)
    /\ pc' = "vote_done"
    /\ UNCHANGED <<start_time, end_time, raw_diarization, timingVars, mergeVars, extVars>>

NextVote == CallFindSpeakerForTimeSegment

SpecVote == InitVote /\ [][NextVote]_vars

----------------------------------------------------------------------------
(* Properties of the speaker assignment *)

VoteReturned == pc = "vote_done"
NTurns == Len(raw_diarization)

\* o_t = max(0, min(unit.end, t.end) - max(unit.start, t.start))
Overlap(t) == Max(0, Min(end_time, t.end) - Max(start_time, t.start))

SomeOverlap == \E i \in 1..NTurns : Overlap(raw_diarization[i]) > 0
MaxOverlapTurns ==
    {i \in 1..NTurns : \A j \in 1..NTurns :
        Overlap(raw_diarization[i]) >= Overlap(raw_diarization[j])}

\* C1 (overlap voting): when at least one turn has positive overlap with the
\* span, the returned speaker is the speaker of a turn whose overlap duration
\* is >= the overlap duration of every other turn.
C1_OverlapVoting ==
    (VoteReturned /\ SomeOverlap) =>
        \E i \in MaxOverlapTurns : raw_diarization[i].speaker = speaker

\* two turns of different speakers overlap the span by different positive
\* amounts, the smaller overlap listed first
C1_Witness ==
    /\ VoteReturned /\ NTurns = 2
    /\ raw_diarization[1].speaker # raw_diarization[2].speaker
    /\ Overlap(raw_diarization[1]) > 0
    /\ Overlap(raw_diarization[2]) > Overlap(raw_diarization[1])
    /\ speaker = raw_diarization[2].speaker

\* C2 (overlap tie-break): when several turns tie for the maximum overlap, the
\* returned speaker is that of the tied turn with the smallest start time, in
\* every ordering of the turn list.
C2_TieBreakEarliestStart ==
    (VoteReturned /\ SomeOverlap) =>
        \E i \in MaxOverlapTurns :
            /\ \A j \in MaxOverlapTurns :
                  raw_diarization[i].start <= raw_diarization[j].start
            /\ raw_diarization[i].speaker = speaker

NearestTurns ==
    {i \in 1..NTurns : \A j \in 1..NTurns :
        Min(Abs(raw_diarization[i].start - start_time),
            Abs(raw_diarization[i].end - end_time))
          <= Min(Abs(raw_diarization[j].start - start_time),
                 Abs(raw_diarization[j].end - end_time))}

\* C3 (no-overlap fallback): when the turn list is non-empty and no turn has
\* positive overlap with the span, the returned speaker is the speaker of a
\* turn minimising min(|t.start - unit.start|, |t.end - unit.end|) (the call
\* reads nothing but its arguments, so the same inputs give the same speaker).
C3_NearestFallback ==
    (VoteReturned /\ NTurns > 0 /\ ~SomeOverlap) =>
        \E i \in NearestTurns : raw_diarization[i].speaker = speaker

\* a span in a diarization gap: two turns of different speakers, neither
\* overlapping, the second strictly nearer and nearer by its end boundary only
C3_Witness ==
    /\ VoteReturned /\ NTurns = 2 /\ ~SomeOverlap
    /\ start_time < end_time
    /\ \A i \in 1..2 : raw_diarization[i].start <= raw_diarization[i].end
    /\ raw_diarization[1].speaker # raw_diarization[2].speaker
    /\ NearestTurns = {2}
    /\ Abs(raw_diarization[2].end - end_time) < Abs(raw_diarization[2].start - start_time)
    /\ speaker = raw_diarization[2].speaker

----------------------------------------------------------------------------
(* _merge_consecutive_same_speaker; times in ticks of half a second *)

\* the 2.0 seconds of line 286, in ticks
GapThresholdTicks == 4

MergeTimes == {0, 1} \cup (GapThresholdTicks..MaxMergeTick)

\* the text of the unit at position i of the input
UnitText(i) == <<ToString(i)>>

SegmentShapes ==
    {sh \in [start : MergeTimes, end : MergeTimes, speaker : Speakers] :
        sh.start <= sh.end}

\* the lists of segments; the merge compares speakers only for equality, so
\* the lists that start with the other speaker are these with the two
\* speakers exchanged
SegmentLists ==
    {[i \in DOMAIN shs |->
        [start |-> shs[i].start, end |-> shs[i].end,
         speaker |-> shs[i].speaker, text |-> UnitText(i)]] :
     shs \in {l \in SeqsUpTo(SegmentShapes, MaxSegments) :
                 l # <<>> => l[1].speaker = "SPEAKER_00"}}

\* a test that also merges at a distance of exactly the threshold
ShouldMerge_inclusive(current, next) ==
    /\ current.speaker = next.speaker
    /\ Abs(current.end - next.start) <= GapThresholdTicks

\* condition of lines 285-286
ShouldMerge(current, next) ==
    /\ current.speaker = next.speaker
    /\ Abs(current.end - next.start) < GapThresholdTicks

\* a merge that keeps the next segment's record and only prepends the text
MergeInto_takesNext(current, next) ==
    [next EXCEPT !.text = current.text \o <<" ">> \o next.text]

\* a merge that joins the texts without the separating space
MergeInto_noSpace(current, next) ==
    [current EXCEPT !.end = next.end, !.text = current.text \o next.text]

\* lines 289-290
MergeInto(current, next) ==
    [current EXCEPT !.end = next.end, !.text = current.text \o <<" ">> \o next.text]

InitMerge ==
    /\ pc = "merge"
    /\ segments \in SegmentLists
    /\ merge_i = 0 /\ current_segment = NoSegment /\ merged = <<>>
    /\ pass = 1 /\ first_merged = <<>>
    /\ sentences = <<>> /\ total_duration = 0 /\ sentence_timings = NoResult
    /\ start_time = 0 /\ end_time = 0 /\ raw_diarization = <<>> /\ speaker = NoResult
    /\ ExtIdle

\* lines 275-279: empty input returns []; otherwise the first segment is opened
MergeBegin ==
    /\ pc = "merge"
    /\ merged' = <<>>
    /\ IF segments = <<>>
       THEN /\ pc' = "merge_done"
            /\ UNCHANGED <<merge_i, current_segment>>
       ELSE /\ pc' = "merge_loop"
            /\ current_segment' = segments[1]
            /\ merge_i' = 2
    /\ UNCHANGED <<segments, pass, first_merged, timingVars, voteVars, extVars>>

\* one iteration of the loop of lines 281-294
MergeStep ==
    /\ pc = "merge_loop"
    /\ merge_i <= Len(segments)
    /\ LET next_segment == segments[merge_i]
       IN  IF ShouldMerge(current_segment, next_segment)
           THEN /\ current_segment' = MergeInto(current_segment, next_segment)
                /\ merged' = merged
           ELSE /\ merged' = Append(merged, current_segment)
                /\ current_segment' = next_segment
    /\ merge_i' = merge_i + 1
    /\ UNCHANGED <<pc, segments, pass, first_merged, timingVars, voteVars, extVars>>

\* lines 296-299: the open segment is appended and the list returned
MergeReturn ==
    /\ pc = "merge_loop"
    /\ merge_i > Len(segments)
    /\ merged' = Append(merged, current_segment)
    /\ pc' = "merge_done"
    /\ UNCHANGED <<segments, merge_i, current_segment, pass, first_merged,
                   timingVars, voteVars, extVars>>

\* the caller passes the returned list to a second call
MergeAgain ==
    /\ pc = "merge_done"
    /\ pass = 1
    /\ first_merged' = merged
    /\ segments' = merged
    /\ pass' = 2
    /\ pc' = "merge"
    /\ merge_i' = 0 /\ current_segment' = NoSegment /\ merged' = <<>>
    /\ UNCHANGED <<timingVars, voteVars, extVars>>

NextMerge == MergeBegin \/ MergeStep \/ MergeReturn \/ MergeAgain

SpecMerge == InitMerge /\ [][NextMerge]_vars

----------------------------------------------------------------------------
(* The three operations together *)

Init == InitTiming \/ InitVote \/ InitMerge

Next == NextTiming \/ NextVote \/ NextMerge

Spec == Init /\ [][Next]_vars

----------------------------------------------------------------------------
(* Properties of the merge *)

MergeReturned == pc = "merge_done"
InMergeStep == pc = "merge_loop" /\ merge_i <= Len(segments)
\* the step merged the unit into the open segment instead of closing it
UnitMerged ==
    /\ merged' = merged
    /\ current_segment'.start = current_segment.start
    /\ current_segment'.end = segments[merge_i].end

\* C8 (merge rule, as claimed): unit i+1 is merged into the open segment if
\* and only if its speaker equals the open segment's speaker and
\* start_{i+1} minus the open segment's current end is less than 2.0 seconds,
\* so a same-speaker unit starting more than 2.0 s before that end is merged.
C8_MergeRuleSigned ==
    [][InMergeStep =>
        (UnitMerged <=>
            /\ segments[merge_i].speaker = current_segment.speaker
            /\ segments[merge_i].start - current_segment.end < GapThresholdTicks)]_vars

\* C8 (merge rule, amended): unit i+1 is merged into the open segment if and
\* only if its speaker equals the open segment's speaker and the absolute
\* difference between start_{i+1} and the open segment's current end is less
\* than 2.0 seconds; a unit starting 2.0 s or more before that end is not merged.
C8_MergeRuleAbsolute ==
    [][InMergeStep =>
        (UnitMerged <=>
            /\ segments[merge_i].speaker = current_segment.speaker
            /\ segments[merge_i].start - current_segment.end < GapThresholdTicks
            /\ current_segment.end - segments[merge_i].start < GapThresholdTicks)]_vars

\* three units of one speaker: the second starts 1.5 s after the first ends
\* and is merged, the third starts 2.5 s before the open segment's end and is
\* kept apart
C8_Witness ==
    /\ MergeReturned /\ pass = 1 /\ Len(segments) = 3
    /\ \A i \in 1..3 : segments[i].speaker = segments[1].speaker
    /\ segments[2].start - segments[1].end = 3
    /\ segments[3].start - segments[2].end = 0 - 5
    /\ Len(merged) = 2
    /\ merged[1].end = segments[2].end
    /\ merged[2] = segments[3]

\* C9 (merge idempotence): applying the merge to its own result returns a
\* sequence identical to that result.
C9_MergeIdempotent ==
    (MergeReturned /\ pass = 2) => merged = first_merged

\* the second call has returned on a first result that holds a merged
\* segment followed by a separate segment of the same speaker
C9_Witness ==
    /\ MergeReturned /\ pass = 2
    /\ Len(first_merged) >= 2
    /\ Len(first_merged[1].text) > 1
    /\ first_merged[2].speaker = first_merged[1].speaker
    /\ merged = first_merged

\* texts of units lo..hi joined by single spaces
RECURSIVE JoinTexts(_, _, _)
JoinTexts(segs, lo, hi) ==
    IF lo = hi THEN segs[lo].text
    ELSE segs[lo].text \o <<" ">> \o JoinTexts(segs, lo + 1, hi)

\* start indices of the runs of a partition of 1..n into contiguous runs
RunStarts(n) == {S \in SUBSET (1..n) : n > 0 => 1 \in S}
RunFirst(S, j) == CHOOSE f \in S : Cardinality({g \in S : g < f}) = j - 1
RunLast(S, j, n) == IF j = Cardinality(S) THEN n ELSE RunFirst(S, j + 1) - 1

\* C10 (merge partitions the input in order): the output segments correspond,
\* in order, to contiguous single-speaker runs covering every input unit
\* exactly once; each has the start of its run's first unit, the end of its
\* run's last unit and the run's texts joined by exactly one space.
C10_MergePartitions ==
    MergeReturned =>
        \E S \in RunStarts(Len(segments)) :
            /\ Len(merged) = Cardinality(S)
            /\ \A j \in 1..Len(merged) :
                  LET f == RunFirst(S, j)
                      l == RunLast(S, j, Len(segments))
                  IN  /\ \A k \in f..l : segments[k].speaker = merged[j].speaker
                      /\ merged[j].start = segments[f].start
                      /\ merged[j].end = segments[l].end
                      /\ merged[j].text = JoinTexts(segments, f, l)

\* a first call whose result holds a run of two units and a run of one unit
C10_Witness ==
    /\ MergeReturned /\ pass = 1 /\ Len(segments) = 3 /\ Len(merged) = 2
    /\ merged[1].text = JoinTexts(segments, 1, 2)
    /\ merged[1].end = segments[2].end
    /\ segments[2].end # segments[1].end
    /\ merged[2] = segments[3]

----------------------------------------------------------------------------
(* _split_into_sentences *)

MaxSplitPieces == 4

\* the length of line 212
MinSentenceLength == 10

Whitespace == {" "}
Punctuation == {".", "!", "?"}

HelloThere == <<"H", "e", "l", "l", "o", " ", "t", "h", "e", "r", "e">>
HowAreYou == <<"H", "o", "w", " ", "a", "r", "e", " ", "y", "o", "u", "?">>
TenLetters == <<"t", "e", "n", "l", "e", "t", "t", "e", "r", "s">>

\* transcripts are concatenations of these pieces
SplitVocabulary ==
    {HelloThere, HowAreYou, TenLetters, <<" ">>, <<".">>, <<"s", "o">>, <<"u", "h", "m">>}

RECURSIVE Flatten(_)
Flatten(ss) == IF ss = <<>> THEN <<>> ELSE Head(ss) \o Flatten(Tail(ss))

SplitTexts == {Flatten(ps) : ps \in SeqsUpTo(SplitVocabulary, MaxSplitPieces)}

\* first position at or after p whose character is not in S (Len(t) + 1 if none):
\* the end of a greedy S+ started at p
RECURSIVE RunEnd(_, _, _)
RunEnd(t, p, S) ==
    IF p <= Len(t) /\ t[p] \in S THEN RunEnd(t, p + 1, S) ELSE p

LiteralAt(t, p, lit) ==
    /\ p + Len(lit) - 1 <= Len(t)
    /\ SubSeq(t, p, p + Len(lit) - 1) = lit

\* The Match operators give the position after a match that starts at p, 0 if
\* there is none.  The character classes and the literals that follow them
\* are disjoint, so the greedy run is the only way a + can match.

\* \s+
MatchSpaces(t, p) ==
    IF p >= 1 /\ p <= Len(t) /\ t[p] \in Whitespace THEN RunEnd(t, p, Whitespace) ELSE 0

\* lit\s+
MatchLiteralSpaces(t, p, lit) ==
    IF p >= 1 /\ LiteralAt(t, p, lit) THEN MatchSpaces(t, p + Len(lit)) ELSE 0

\* \s+lit\s+
MatchSpacesLiteralSpaces(t, p, lit) ==
    LET q == MatchSpaces(t, p) IN IF q = 0 THEN 0 ELSE MatchLiteralSpaces(t, q, lit)

\* [.!?]+\s+
MatchPunctuation(t, p) ==
    IF p <= Len(t) /\ t[p] \in Punctuation
    THEN MatchSpaces(t, RunEnd(t, p, Punctuation))
    ELSE 0

\* \s+and\s+uhm\s+
MatchAndUhm(t, p) ==
    LET q == MatchSpacesLiteralSpaces(t, p, <<"a", "n", "d">>)
    IN  IF q = 0 THEN 0 ELSE MatchLiteralSpaces(t, q, <<"u", "h", "m">>)

\* the alternatives of the pattern of line 208, tried in order at position p
MatchEnd(t, p) ==
    LET alternatives ==
            <<MatchPunctuation(t, p),
              MatchLiteralSpaces(t, p, <<"u", "h", "m">>),
              MatchLiteralSpaces(t, p, <<"u", "m">>),
              MatchAndUhm(t, p),
              MatchSpacesLiteralSpaces(t, p, <<"s", "o">>),
              MatchSpacesLiteralSpaces(t, p, <<"b", "u", "t">>)>>
        matching == {k \in 1..6 : alternatives[k] # 0}
    IN  IF matching = {} THEN 0
        ELSE alternatives[CHOOSE k \in matching : \A j \in matching : k <= j]

\* re.split: the pieces of t between the successive leftmost matches
RECURSIVE ReSplitFrom(_, _, _, _)
ReSplitFrom(t, pieceStart, p, acc) ==
    IF p > Len(t) THEN Append(acc, SubSeq(t, pieceStart, Len(t)))
    ELSE LET e == MatchEnd(t, p)
         IN  IF e # 0
             THEN ReSplitFrom(t, e, e, Append(acc, SubSeq(t, pieceStart, p - 1)))
             ELSE ReSplitFrom(t, pieceStart, p + 1, acc)

ReSplit(t) == ReSplitFrom(t, 1, 1, <<>>)

\* str.strip()
RECURSIVE StripLeft(_)
StripLeft(t) ==
    IF t # <<>> /\ Head(t) \in Whitespace THEN StripLeft(Tail(t)) ELSE t

RECURSIVE StripRight(_)
StripRight(t) ==
    IF t # <<>> /\ t[Len(t)] \in Whitespace
    THEN StripRight(SubSeq(t, 1, Len(t) - 1)) ELSE t

Strip(t) == StripRight(StripLeft(t))

\* line 212: len(part) > 10
KeepPart(part) == Len(part) > MinSentenceLength

\* lines 210-213
RECURSIVE StripAndFilter(_)
StripAndFilter(ps) ==
    IF ps = <<>> THEN <<>>
    ELSE LET part == Strip(Head(ps))
         IN  (IF KeepPart(part) THEN <<part>> ELSE <<>>) \o StripAndFilter(Tail(ps))

SplitIntoSentences(t) == StripAndFilter(ReSplit(t))

InitSplit ==
    /\ pc = "split"
    /\ full_text \in SplitTexts
    /\ parts = <<>>
    /\ sentences = <<>> /\ total_duration = 0 /\ sentence_timings = NoResult
    /\ start_time = 0 /\ end_time = 0 /\ raw_diarization = <<>> /\ speaker = NoResult
    /\ MergeIdle /\ PipelineIdle /\ UniformIdle /\ ProcessIdle /\ EngineIdle /\ DiarizeIdle /\ MaskerIdle

CallSplitIntoSentences ==
    /\ pc = "split"
    /\ parts' = ReSplit(full_text)
    /\ sentences' = SplitIntoSentences(full_text)
    /\ pc' = "split_done"
    /\ UNCHANGED <<full_text, total_duration, sentence_timings, voteVars, mergeVars,
                   pipelineVars, uniformVars, processVars,
                   engineVars, diarizeVars, maskerVars>>

NextSplit == CallSplitIntoSentences

SpecSplit == InitSplit /\ [][NextSplit]_vars

----------------------------------------------------------------------------
(* Properties of the segmenter *)

SplitReturned == pc = "split_done"

RECURSIVE NonWhitespace(_)
NonWhitespace(t) ==
    IF t = <<>> THEN <<>>
    ELSE (IF Head(t) \in Whitespace THEN <<>> ELSE <<Head(t)>>) \o NonWhitespace(Tail(t))

\* C11 (segmenter preserves text): the returned units together contain every
\* non-whitespace character of the transcript, in order.
C11_SplitPreservesText ==
    SplitReturned => NonWhitespace(Flatten(sentences)) = NonWhitespace(full_text)

RECURSIVE StrippedParts(_)
StrippedParts(ps) ==
    IF ps = <<>> THEN <<>> ELSE <<Strip(Head(ps))>> \o StrippedParts(Tail(ps))

AtLeastTen(fragment) == Len(fragment) >= 10

\* C12 (minimum unit length): the returned units are exactly the trimmed
\* fragments of length 10 or more, in order; the fragments shorter than 10
\* characters and only those are discarded.
C12_MinimumUnitLength ==
    SplitReturned => sentences = SelectSeq(StrippedParts(parts), AtLeastTen)

----------------------------------------------------------------------------
(* Malformed turns in the speaker assignment *)

WellFormed(turn) == turn.start <= turn.end

\* C14 (malformed turns are ignored): a turn with end < start never
\* determines the assigned speaker; the speaker returned for a list that
\* holds a well-formed turn is the one returned for the list without its
\* malformed turns.
C14_MalformedTurnsIgnored ==
    (VoteReturned /\ SelectSeq(raw_diarization, WellFormed) # <<>>) =>
        speaker = FindSpeakerForTimeSegment(start_time, end_time,
                                            SelectSeq(raw_diarization, WellFormed))

----------------------------------------------------------------------------
(* _create_improved_attribution and improve_speaker_attribution.            *)
(* Turn times are whole seconds; the times of the units and of the         *)
(* segments are numerators over total_chars, as in the timing estimator.   *)

MaxPipelinePieces == 3
MaxPipelineTurns == 2
MaxPipelineTime == 4

\* the 2.0 seconds of line 286
GapSeconds == 2

PipelineVocabulary == {HelloThere, HowAreYou, <<".", " ">>}
PipelineTexts == {Flatten(ps) : ps \in SeqsUpTo(PipelineVocabulary, MaxPipelinePieces)}

PipelineTimes == {t \in 0..MaxPipelineTime : t % 2 = 0}
\* turns of positive length, as a diarizer reports them
PipelineTurns ==
    {turn \in [start : PipelineTimes, end : PipelineTimes, speaker : Speakers] :
        turn.start < turn.end}
PipelineTurnLists == SeqsUpTo(PipelineTurns, MaxPipelineTurns)

\* "not raw_diarization" of lines 37 and 161
NoDiarization(turns) == turns = <<>>

\* re.sub(r'\s+', ' ', text) of line 123
RECURSIVE CollapseSpaces(_)
CollapseSpaces(t) ==
    IF t = <<>> THEN <<>>
    ELSE IF Head(t) \in Whitespace
         THEN <<" ">> \o CollapseSpaces(SubSeq(t, RunEnd(t, 1, Whitespace), Len(t)))
         ELSE <<Head(t)>> \o CollapseSpaces(Tail(t))

\* _clean_transcription_text: the substitutions of lines 118-120 and 127-151
\* match no word of the transcripts explored here, which leaves lines 123-124
CleanTranscriptionText(t) == Strip(CollapseSpaces(t))

\* _extract_full_transcription on a text part of one line
ExtractFullTranscription(c) == CleanTranscriptionText(Strip(c.text))

\* line 164 with sum in place of max
RECURSIVE MaxEnd_sum(_)
MaxEnd_sum(turns) ==
    IF turns = <<>> THEN 0 ELSE Head(turns).end + MaxEnd_sum(Tail(turns))
\* max([seg['end'] for seg in raw_diarization]) of line 164, turns non-empty
MaxEnd(turns) ==
    LET ends == {turns[i].end : i \in 1..Len(turns)}
    IN  CHOOSE e \in ends : \A f \in ends : f <= e

\* the turns with their times as numerators over c
ScaleTurns(turns, c) ==
    [i \in 1..Len(turns) |->
        [start |-> turns[i].start * c, end |-> turns[i].end * c,
         speaker |-> turns[i].speaker]]

\* lines 285-286 asking for a positive gap: contiguous spans are not merged
CloseSameSpeaker_positiveGap(current, next, threshold) ==
    /\ current.speaker = next.speaker
    /\ 0 < Abs(current.end - next.start)
    /\ Abs(current.end - next.start) < threshold
\* condition of lines 285-286 for times of which threshold is 2.0 seconds
CloseSameSpeaker(current, next, threshold) ==
    /\ current.speaker = next.speaker
    /\ Abs(current.end - next.start) < threshold

\* lines 281-297, from index i with the open segment current
RECURSIVE MergeLoop(_, _, _, _, _)
MergeLoop(segs, i, current, acc, threshold) ==
    IF i > Len(segs) THEN Append(acc, current)
    ELSE IF CloseSameSpeaker(current, segs[i], threshold)
         THEN MergeLoop(segs, i + 1, MergeInto(current, segs[i]), acc, threshold)
         ELSE MergeLoop(segs, i + 1, segs[i], Append(acc, current), threshold)

\* _merge_consecutive_same_speaker without the guard of lines 274-275: the
\* open segment, still unset, is appended after the loop
MergeConsecutiveSameSpeaker_appendsOpen(segs, threshold) ==
    IF segs = <<>> THEN <<NoSegment>> ELSE MergeLoop(segs, 2, segs[1], <<>>, threshold)
\* _merge_consecutive_same_speaker as one function
MergeConsecutiveSameSpeaker(segs, threshold) ==
    IF segs = <<>> THEN <<>> ELSE MergeLoop(segs, 2, segs[1], <<>>, threshold)

InitPipeline ==
    /\ \/ /\ pc = "create" /\ entry = "create"
          /\ full_text \in PipelineTexts
          /\ raw_diarization \in PipelineTurnLists
          /\ content = NoContent
          /\ output_file = FALSE
       \/ /\ pc = "improve" /\ entry = "improve"
          /\ content \in [text : PipelineTexts, turns : PipelineTurnLists]
          /\ output_file \in BOOLEAN
          /\ full_text = <<>>
          /\ raw_diarization = <<>>
    /\ attr_i = 0 /\ attributed_segments = <<>> /\ merged_segments = <<>>
    /\ improved_content = NoContent /\ file_written = FALSE
    /\ parts = <<>>
    /\ sentences = <<>> /\ total_duration = 0 /\ sentence_timings = NoResult
    /\ start_time = 0 /\ end_time = 0 /\ speaker = NoResult
    /\ MergeIdle /\ UniformIdle /\ ProcessIdle /\ EngineIdle /\ DiarizeIdle /\ MaskerIdle

\* lines 31-42: the file is parsed; without raw diarization the content is
\* returned as it is, otherwise the full text is extracted and line 45 calls
\* _create_improved_attribution
ImproveBegin ==
    /\ pc = "improve"
    /\ raw_diarization' = content.turns
    /\ IF NoDiarization(content.turns)
       THEN /\ improved_content' = content
            /\ pc' = "improve_done"
            /\ UNCHANGED full_text
       ELSE /\ full_text' = ExtractFullTranscription(content)
            /\ pc' = "create"
            /\ UNCHANGED improved_content
    /\ UNCHANGED <<timingVars, start_time, end_time, speaker, mergeVars, parts,
                   entry, content, output_file, attr_i, attributed_segments,
                   merged_segments, file_written, uniformVars, processVars,
                   engineVars, diarizeVars, maskerVars>>

\* lines 161-174
CreateBegin ==
    /\ pc = "create"
    /\ IF NoDiarization(raw_diarization)
       THEN /\ merged_segments' = <<>>
            /\ pc' = "create_done"
            /\ UNCHANGED <<timingVars, attr_i, attributed_segments>>
       ELSE /\ total_duration' = MaxEnd(raw_diarization)
            /\ sentences' = SplitIntoSentences(full_text)
            /\ sentence_timings' = EstimateSentenceTimings(sentences', total_duration')
            /\ attributed_segments' = <<>>
            /\ attr_i' = 1
            /\ pc' = "create_loop"
            /\ UNCHANGED merged_segments
    /\ UNCHANGED <<voteVars, mergeVars, splitVars, entry, content, output_file,
                   improved_content, file_written, uniformVars, processVars,
                   engineVars, diarizeVars, maskerVars>>

\* one iteration of the loop of lines 176-189
CreateAttribute ==
    /\ pc = "create_loop"
    /\ attr_i <= Len(sentence_timings)
    /\ LET timing == sentence_timings[attr_i]
       IN  IF Strip(timing.sentence) = <<>>
           THEN UNCHANGED <<start_time, end_time, speaker, attributed_segments>>
           ELSE /\ start_time' = timing.start
                /\ end_time' = timing.end
                /\ speaker' = FindSpeakerForTimeSegment(timing.start, timing.end,
                                   ScaleTurns(raw_diarization, TotalChars(sentences)))
                /\ attributed_segments' =
                      Append(attributed_segments,
                             [start |-> timing.start, end |-> timing.end,
                              speaker |-> speaker', text |-> Strip(timing.sentence),
                              sentence_index |-> attr_i - 1])
    /\ attr_i' = attr_i + 1
    /\ UNCHANGED <<pc, timingVars, raw_diarization, mergeVars, splitVars, entry,
                   content, output_file, merged_segments, improved_content,
                   file_written, uniformVars, processVars,
                   engineVars, diarizeVars, maskerVars>>

\* lines 192-199
CreateReturn ==
    /\ pc = "create_loop"
    /\ attr_i > Len(sentence_timings)
    /\ merged_segments' =
          MergeConsecutiveSameSpeaker(attributed_segments,
                                      GapSeconds * TotalChars(sentences))
    /\ pc' = IF entry = "improve" THEN "improve_format" ELSE "create_done"
    /\ UNCHANGED <<timingVars, voteVars, mergeVars, splitVars, entry, content,
                   output_file, attr_i, attributed_segments, improved_content,
                   file_written, uniformVars, processVars,
                   engineVars, diarizeVars, maskerVars>>

\* line 50: the class defines no _format_improved_output, so the call raises
\* AttributeError before anything is written or returned
ImproveFormat ==
    /\ pc = "improve_format"
    /\ pc' = "improve_raised"
    /\ UNCHANGED <<timingVars, voteVars, mergeVars, splitVars, pipelineVars,
                   uniformVars, processVars,
                   engineVars, diarizeVars, maskerVars>>

NextPipeline ==
    ImproveBegin \/ CreateBegin \/ CreateAttribute \/ CreateReturn \/ ImproveFormat

SpecPipeline == InitPipeline /\ [][NextPipeline]_vars

----------------------------------------------------------------------------
(* Properties of the pipeline *)

CreateReturned == pc \in {"create_done", "improve_format", "improve_raised"}

ScenarioText == HelloThere \o <<".", " ">> \o HowAreYou
ScenarioTurns ==
    <<[start |-> 0, end |-> 2, speaker |-> "SPEAKER_00"],
      [start |-> 2, end |-> 4, speaker |-> "SPEAKER_01"]>>

\* C13 (scenario 1): for the transcript "Hello there. How are you?" and the
\* turns [(0,2,A),(2,4,B)] the pipeline returns exactly two segments: the
\* first of speaker A from 0.0 with text "Hello there." (period kept), the
\* second of speaker B up to 4.0 with text "How are you?", the first ending
\* where the second starts.
C13_ScenarioOne ==
    (CreateReturned /\ full_text = ScenarioText /\ raw_diarization = ScenarioTurns) =>
        /\ Len(merged_segments) = 2
        /\ merged_segments[1].speaker = "SPEAKER_00"
        /\ merged_segments[1].start = 0
        /\ merged_segments[1].text = HelloThere \o <<".">>
        /\ merged_segments[2].speaker = "SPEAKER_01"
        /\ merged_segments[2].end = 4 * TotalChars(sentences)
        /\ merged_segments[2].text = HowAreYou
        /\ merged_segments[1].end = merged_segments[2].start

\* C25 (alternating speakers): the estimated spans of consecutive units are
\* contiguous, and in the list returned by _create_improved_attribution no
\* two consecutive segments have the same speaker.
C25_AlternatingSpeakers ==
    CreateReturned =>
        /\ \A i \in 1..(Len(attributed_segments) - 1) :
              attributed_segments[i].end = attributed_segments[i + 1].start
        /\ \A i \in 1..(Len(merged_segments) - 1) :
              merged_segments[i].speaker # merged_segments[i + 1].speaker

\* two units of one speaker were attributed and came back as one segment
C25_Witness ==
    /\ CreateReturned
    /\ Len(attributed_segments) = 2
    /\ attributed_segments[1].speaker = attributed_segments[2].speaker
    /\ Len(merged_segments) = 1
    /\ merged_segments[1].end = attributed_segments[2].end

\* C26 (duration taken from the turns): every segment returned by
\* _create_improved_attribution has 0 <= start <= end <= the maximum end over
\* all turns, the first segment starts at 0 and each later segment starts
\* where the previous one ends.  Times are numerators over the total number
\* of characters of the units.
C26_DurationFromTurns ==
    (CreateReturned /\ merged_segments # <<>>) =>
        LET c == TotalChars(sentences)
        IN  /\ \A i \in 1..Len(merged_segments) :
                  /\ 0 <= merged_segments[i].start
                  /\ merged_segments[i].start <= merged_segments[i].end
                  /\ \E k \in 1..Len(raw_diarization) :
                        /\ merged_segments[i].end <= raw_diarization[k].end * c
                        /\ \A j \in 1..Len(raw_diarization) :
                              raw_diarization[j].end <= raw_diarization[k].end
            /\ merged_segments[1].start = 0
            /\ \A i \in 2..Len(merged_segments) :
                  merged_segments[i].start = merged_segments[i - 1].end

\* two segments came back, from turns whose largest end is not the last one
C26_Witness ==
    /\ CreateReturned
    /\ Len(merged_segments) = 2
    /\ Len(raw_diarization) = 2
    /\ raw_diarization[1].end > raw_diarization[2].end
    /\ merged_segments[2].start > 0
    /\ merged_segments[2].end = raw_diarization[1].end * TotalChars(sentences)

----------------------------------------------------------------------------
(* apply_speaker_labels_to_transcript, src/transcription.py lines 1274-1331:
   the uniform strategy.  Word k of n is placed at time k * audio_duration / n;
   the model keeps the numerator k * audio_duration and compares it with the
   turn bounds multiplied by n, so no division is rounded. *)

MaxTranscriptWords == 3
MaxUniformTurns == 2
MaxAudioDuration == 2

TranscriptChars == {" ", "a"}
WordShapes == {<<"a">>, <<"b", "b">>}
UniformTurns ==
    {[start |-> a, end |-> b, speaker |-> s] :
        a \in 0..MaxAudioDuration, b \in 0..MaxAudioDuration, s \in Speakers}
UniformTurnLists ==
    {NoneSegments} \cup
    {SomeSegments(l) :
        l \in SeqsUpTo({t \in UniformTurns : t.start <= t.end}, MaxUniformTurns)}
\* the audio lasts as long as the latest time a turn can have
AudioDurations == {MaxAudioDuration}

\* line 1282: `not diarization_segments` holds for None and for the empty list
NotSegments_noneOnly(d) == d.is_none
NotSegments(d) == d.is_none \/ d.turns = <<>>

\* line 1286: str.split() with no argument splits on runs of whitespace and
\* yields no empty words
RECURSIVE SplitWordsFrom(_, _, _)
SplitWordsFrom(text, i, word) ==
    IF i > Len(text)
    THEN IF word = <<>> THEN <<>> ELSE <<word>>
    ELSE IF text[i] \in Whitespace
         THEN IF word = <<>>
              THEN SplitWordsFrom(text, i + 1, <<>>)
              ELSE <<word>> \o SplitWordsFrom(text, i + 1, <<>>)
         ELSE SplitWordsFrom(text, i + 1, Append(word, text[i]))
SplitWords(text) == SplitWordsFrom(text, 1, <<>>)

\* line 1307: seg['start'] <= current_time <= seg['end'], current_time = num / n
SegContains_exclusiveEnd(seg, num, n) == seg.start * n <= num /\ num < seg.end * n
SegContains(seg, num, n) == seg.start * n <= num /\ num <= seg.end * n

\* lines 1305-1309: the first turn, in list order, that contains the time
RECURSIVE SpeakerForWord_noBreak(_, _, _, _)
SpeakerForWord_noBreak(turns, i, num, n) ==
    IF i > Len(turns) THEN None
    ELSE LET later == SpeakerForWord_noBreak(turns, i + 1, num, n)
         IN  IF later # None THEN later
             ELSE IF SegContains(turns[i], num, n) THEN turns[i].speaker ELSE None
RECURSIVE SpeakerForWord(_, _, _, _)
SpeakerForWord(turns, i, num, n) ==
    IF i > Len(turns) THEN None
    ELSE IF SegContains(turns[i], num, n) THEN turns[i].speaker
         ELSE SpeakerForWord(turns, i + 1, num, n)

\* line 1312: a found speaker that differs from the current one opens a line
OpensNewLine_onAnyChange(found, current) == found # current
OpensNewLine_onEveryFound(found, current) == found # None
OpensNewLine(found, current) == found # None /\ found # current

\* ' '.join(current_text)
RECURSIVE JoinWords(_)
JoinWords(ws) ==
    IF ws = <<>> THEN <<>>
    ELSE IF Len(ws) = 1 THEN ws[1]
         ELSE ws[1] \o <<" ">> \o JoinWords(Tail(ws))

\* lines 1315, 1326: f"[{current_speaker}] {' '.join(current_text)}"
RenderLine(line) == <<"[", line.label, "]", " ">> \o JoinWords(line.words)

\* line 1329: '\n\n'.join(result_lines)
RECURSIVE JoinLines(_)
JoinLines(lines) ==
    IF lines = <<>> THEN <<>>
    ELSE IF Len(lines) = 1 THEN RenderLine(lines[1])
         ELSE RenderLine(lines[1]) \o <<"\n", "\n">> \o JoinLines(Tail(lines))

\* transcripts of up to MaxTranscriptWords words separated by one space, the
\* transcript of whitespace only, and one word within runs of whitespace
TranscriptTexts ==
    {JoinWords(ws) : ws \in SeqsUpTo(WordShapes, MaxTranscriptWords)}
    \cup {<<" ">>}
    \cup {<<" ">> \o w \o <<" ", " ">> : w \in WordShapes}

InitUniform ==
    /\ pc = "uniform"
    /\ transcript_text \in TranscriptTexts
    /\ diarization_segments \in UniformTurnLists
    /\ audio_duration \in AudioDurations
    /\ words = <<>> /\ word_index = 0 /\ current_time = 0
    /\ speaker_for_word = None /\ current_speaker = None /\ current_text = <<>>
    /\ result_lines = <<>> /\ attributed_transcript = <<>>
    /\ sentences = <<>> /\ total_duration = 0 /\ sentence_timings = NoResult
    /\ start_time = 0 /\ end_time = 0 /\ raw_diarization = <<>> /\ speaker = NoResult
    /\ MergeIdle /\ SplitIdle /\ PipelineIdle /\ ProcessIdle /\ EngineIdle /\ DiarizeIdle /\ MaskerIdle

\* where the function returns to: its caller in process_audio_file (line
\* 1474), or the end of a direct call
UniformExit == IF process_return = "running" THEN "process_attributed" ELSE "uniform_done"

\* lines 1282-1299: the two early returns, then the loop's initial values
UniformBegin ==
    /\ pc = "uniform"
    /\ IF NotSegments(diarization_segments)
       THEN /\ attributed_transcript' = transcript_text
            /\ pc' = UniformExit
            /\ UNCHANGED words
       ELSE /\ words' = SplitWords(transcript_text)
            /\ IF words' = <<>>
               THEN attributed_transcript' = transcript_text /\ pc' = UniformExit
               ELSE UNCHANGED attributed_transcript /\ pc' = "uniform_loop"
    /\ UNCHANGED <<timingVars, voteVars, mergeVars, splitVars, pipelineVars, processVars,
                   transcript_text, diarization_segments, audio_duration,
                   word_index, current_time, speaker_for_word, current_speaker,
                   current_text, result_lines,
                   engineVars, diarizeVars, maskerVars>>

\* lines 1301-1322: one iteration of `for word in words`
UniformWord ==
    /\ pc = "uniform_loop"
    /\ word_index < Len(words)
    /\ LET word == words[word_index + 1]
       IN  /\ current_time' = word_index * audio_duration
           /\ speaker_for_word' =
                 SpeakerForWord(diarization_segments.turns, 1, current_time',
                                Len(words))
           /\ IF OpensNewLine(speaker_for_word', current_speaker)
              THEN /\ result_lines' =
                         IF current_text # <<>>
                         THEN Append(result_lines,
                                     [label |-> current_speaker, words |-> current_text])
                         ELSE result_lines
                   /\ current_speaker' = speaker_for_word'
                   /\ current_text' = <<word>>
              ELSE /\ current_text' = Append(current_text, word)
                   /\ UNCHANGED <<result_lines, current_speaker>>
    /\ word_index' = word_index + 1
    /\ UNCHANGED <<pc, timingVars, voteVars, mergeVars, splitVars, pipelineVars, processVars,
                   transcript_text, diarization_segments, audio_duration, words,
                   attributed_transcript,
                   engineVars, diarizeVars, maskerVars>>

\* lines 1324-1331: the last line, the join and the return
UniformReturn ==
    /\ pc = "uniform_loop"
    /\ word_index = Len(words)
    /\ result_lines' =
          IF current_text # <<>> /\ current_speaker # None
          THEN Append(result_lines, [label |-> current_speaker, words |-> current_text])
          ELSE result_lines
    /\ attributed_transcript' = JoinLines(result_lines')
    /\ pc' = UniformExit
    /\ UNCHANGED <<timingVars, voteVars, mergeVars, splitVars, pipelineVars, processVars,
                   transcript_text, diarization_segments, audio_duration, words,
                   word_index, current_time, speaker_for_word, current_speaker,
                   current_text,
                   engineVars, diarizeVars, maskerVars>>

NextUniform == UniformBegin \/ UniformWord \/ UniformReturn

SpecUniform == InitUniform /\ [][NextUniform]_vars

\* both attribution strategies, each started from its own entry point
InitAttribution == InitPipeline \/ InitUniform
NextAttribution == NextPipeline \/ NextUniform
SpecAttribution == InitAttribution /\ [][NextAttribution]_vars

----------------------------------------------------------------------------
(* Properties of the uniform strategy and of the empty inputs *)

UniformReturned == pc = "uniform_done"
InUniformLoop == pc \in {"uniform_loop", "uniform_done"}

\* the turns that contain the estimated time of word k (0-based)
Containing(k) ==
    {i \in 1..Len(diarization_segments.turns) :
        /\ diarization_segments.turns[i].start * Len(words) <= k * audio_duration
        /\ k * audio_duration <= diarization_segments.turns[i].end * Len(words)}

\* the speaker of the first turn that contains word k, None if there is none
FirstContainingSpeaker(k) ==
    IF Containing(k) = {} THEN None
    ELSE LET first == CHOOSE i \in Containing(k) : \A j \in Containing(k) : i <= j
         IN  diarization_segments.turns[first].speaker

\* the speaker most recently found up to word k, None if none was found yet
PreviousSpeaker(k) ==
    LET found == {j \in 0..k : Containing(j) # {}}
    IN  IF found = {} THEN None
        ELSE FirstContainingSpeaker(CHOOSE j \in found : \A l \in found : l <= j)

\* the label of the line that holds the k-th word (0-based) of the output
RECURSIVE LabelOfWord(_, _)
LabelOfWord(lines, k) ==
    IF lines = <<>> THEN "no line"
    ELSE IF k < Len(lines[1].words) THEN lines[1].label
         ELSE LabelOfWord(Tail(lines), k - Len(lines[1].words))

\* C15 (empty diarization is not a fault): with an empty or None turn list
\* apply_speaker_labels_to_transcript returns the transcript unchanged,
\* _create_improved_attribution returns the empty list and
\* improve_speaker_attribution returns the content unchanged without writing;
\* the attribution loop, the only caller of _find_speaker_for_time_segment,
\* never runs on an empty turn list and the vote never raises.
C15_EmptyDiarization ==
    /\ (UniformReturned /\ (diarization_segments.is_none \/ diarization_segments.turns = <<>>))
          => attributed_transcript = transcript_text
    /\ (CreateReturned /\ raw_diarization = <<>>) => merged_segments = <<>>
    /\ (pc = "improve_done" /\ content.turns = <<>>)
          => (improved_content = content /\ ~file_written)
    /\ pc = "create_loop" => raw_diarization # <<>>
    /\ speaker # ValueError

C15_Witness ==
    /\ UniformReturned
    /\ diarization_segments = SomeSegments(<<>>)
    /\ Len(SplitWords(transcript_text)) >= 2
    /\ attributed_transcript = transcript_text

\* C16 (empty transcript is not a fault): when segmentation yields zero units
\* (sentences, the result of _split_into_sentences at line 170, is empty)
\* _create_improved_attribution returns the empty sequence, and when the
\* transcript has no words apply_speaker_labels_to_transcript returns it
\* unchanged.
C16_EmptyTranscript ==
    /\ (CreateReturned /\ raw_diarization # <<>> /\ sentences = <<>>)
          => merged_segments = <<>>
    /\ (UniformReturned /\ SplitWords(transcript_text) = <<>>)
          => attributed_transcript = transcript_text

C16_Witness ==
    /\ pc = "create_done"
    /\ raw_diarization # <<>>
    /\ full_text # <<>>
    /\ sentences = <<>>
    /\ sentence_timings = <<>>
    /\ merged_segments = <<>>

\* C18 (uniform containment): word k of n is estimated at k*D/n and gets the
\* speaker of the first turn in list order that contains that time; the
\* estimated times never decrease and each is strictly below D.
C18_UniformContainment ==
    [][(pc = "uniform_loop" /\ word_index' = word_index + 1) =>
          /\ current_time' = word_index * audio_duration
          /\ speaker_for_word' = FirstContainingSpeaker(word_index)
          /\ current_time' >= current_time
          /\ current_time' < audio_duration * Len(words)]_vars

C18_Witness ==
    /\ InUniformLoop
    /\ word_index >= 2
    /\ current_time > 0
    /\ Cardinality(Containing(word_index - 1)) = 2
    /\ diarization_segments.turns[1].speaker # diarization_segments.turns[2].speaker
    /\ speaker_for_word = diarization_segments.turns[1].speaker

\* C19 (uniform gaps): a word whose estimated time lies in no turn opens no
\* line and leaves the current speaker as it is; it is appended to the open
\* run, so once a speaker has been found the word is emitted in a line of
\* that previous speaker.
C19_UniformGaps ==
    /\ [][(pc = "uniform_loop" /\ word_index' = word_index + 1
             /\ Containing(word_index) = {}) =>
             /\ result_lines' = result_lines
             /\ current_speaker' = current_speaker
             /\ current_text' = Append(current_text, words[word_index + 1])]_vars
    /\ [](UniformReturned =>
             \A k \in 0..(Len(words) - 1) :
                 (Containing(k) = {} /\ PreviousSpeaker(k) # None) =>
                     LabelOfWord(result_lines, k) = PreviousSpeaker(k))

C19_Witness ==
    /\ UniformReturned
    /\ Len(words) >= 3
    /\ Containing(0) # {}
    /\ Containing(1) = {}
    /\ Containing(2) # {}
    /\ FirstContainingSpeaker(2) # FirstContainingSpeaker(0)
    /\ Len(result_lines) = 2
    /\ Len(result_lines[1].words) = 2

\* C20 (unset attribution is suppressed): no line of the output carries the
\* label of an unset speaker, also when the first words precede every
\* containing turn and a later word is matched.
C20_NoUnsetLabel ==
    UniformReturned =>
        /\ \A i \in 1..Len(result_lines) : result_lines[i].label # None
        /\ \A i \in 1..Len(attributed_transcript) : attributed_transcript[i] # None

----------------------------------------------------------------------------
(* process_audio_file, src/transcription.py lines 1375-1621.  The call of
   line 1474 runs the uniform strategy above.  The cleaning functions of lines
   1486-1517 and 1547-1553 are not modelled: a written file records the text
   its content was cleaned from. *)

MaxProcessChars == 3
MaxProcessTurns == 1

ProcessTexts == SeqsUpTo(TranscriptChars, MaxProcessChars)

\* what perform_speaker_diarization returns (lines 1133-1213): None or a list
ProcessTurnLists ==
    {NoneSegments} \cup
    {SomeSegments(l) :
        l \in SeqsUpTo({t \in UniformTurns : t.start <= t.end}, MaxProcessTurns)}

\* lines 1434-1440: None when librosa.get_duration raises, else its value
ProcessDurations == {NoneDuration} \cup {SomeDuration(v) : v \in 0..MaxAudioDuration}

\* what transcribe_audio_only returns (lines 1333-1373): None or a result
TranscriptionResults == {NoneTranscription} \cup {SomeTranscription(t) : t \in ProcessTexts}

DiarizationWarning == "Speaker attribution requested but diarization unavailable"

\* lines 1470 and 1538: speaker_attribution and diarization_segments and audio_duration
AttributionAvailable(requested, diarization, duration) ==
    /\ requested
    /\ ~diarization.is_none /\ diarization.turns # <<>>
    /\ ~duration.is_none /\ duration.value # 0

\* a file written by save_transcript_file or create_word_document
OutputFile(name, text, header) ==
    [name |-> name, cleaned_from |-> text, speaker_header |-> header]

\* lines 1538-1601 with only the labelled files written in the first branch
SaveSequence_speakersOnly(available, base, main, requested) ==
    IF available
    THEN <<OutputFile("_transcript_with_speakers.txt", main, TRUE),
           OutputFile("_transcript_with_speakers.docx", main, TRUE)>>
    ELSE <<OutputFile("_transcript.txt", main, requested),
           OutputFile("_transcript.docx", main, requested)>>
\* lines 1538-1601: the files in the order in which they are written
SaveSequence(available, base, main, requested) ==
    IF available
    THEN <<OutputFile("_transcript.txt", base, FALSE),
           OutputFile("_transcript_with_speakers.txt", main, TRUE),
           OutputFile("_transcript.docx", base, FALSE),
           OutputFile("_transcript_with_speakers.docx", main, TRUE)>>
    ELSE <<OutputFile("_transcript.txt", main, requested),
           OutputFile("_transcript.docx", main, requested)>>

InitProcess ==
    /\ pc = "process"
    /\ libs_available \in BOOLEAN /\ input_exists \in BOOLEAN
    /\ enhance_audio_enabled \in BOOLEAN /\ save_enhanced_audios \in BOOLEAN
    /\ speaker_attribution \in BOOLEAN
    /\ enhanced_audio_path = None /\ temp_exists = FALSE
    /\ diarization_result = NoneSegments /\ duration_result = NoneDuration
    /\ transcription_result = NoneTranscription
    /\ main_text = <<>> /\ base_transcript_text = <<>>
    /\ attribution_applied = FALSE /\ warnings = {} /\ written = <<>>
    /\ raised = NoRaise /\ process_return = "running"
    /\ sentences = <<>> /\ total_duration = 0 /\ sentence_timings = NoResult
    /\ start_time = 0 /\ end_time = 0 /\ raw_diarization = <<>> /\ speaker = NoResult
    /\ MergeIdle /\ SplitIdle /\ PipelineIdle /\ UniformIdle /\ EngineIdle /\ DiarizeIdle /\ MaskerIdle

\* lines 1383-1423: the two early returns, then the optional enhancement;
\* an exception of enhance_audio is caught at line 1617
ProcessEnhance ==
    /\ pc = "process"
    /\ IF ~libs_available \/ ~input_exists
       THEN /\ process_return' = "False" /\ pc' = "process_done"
            /\ UNCHANGED <<enhanced_audio_path, temp_exists, raised>>
       ELSE IF enhance_audio_enabled
            THEN /\ enhanced_audio_path' = IF save_enhanced_audios THEN "saved" ELSE "temp"
                 /\ temp_exists' = ~save_enhanced_audios
                 /\ \E enhanced \in BOOLEAN :
                       IF enhanced
                       THEN /\ pc' = "process_diarize"
                            /\ UNCHANGED <<raised, process_return>>
                       ELSE /\ raised' = "enhancement"
                            /\ process_return' = "False" /\ pc' = "process_done"
            ELSE /\ pc' = "process_diarize"
                 /\ UNCHANGED <<enhanced_audio_path, temp_exists, raised, process_return>>
    /\ UNCHANGED <<timingVars, voteVars, mergeVars, splitVars, pipelineVars,
                   uniformVars, libs_available, input_exists, enhance_audio_enabled,
                   save_enhanced_audios, speaker_attribution, diarization_result,
                   duration_result, transcription_result, main_text,
                   base_transcript_text, attribution_applied, warnings, written,
                   engineVars, diarizeVars, maskerVars>>

\* lines 1425-1440: diarization and the duration lookup, both only if
\* requested.  perform_speaker_diarization returns None or a list, or lets an
\* exception of its imports through (lines 1142-1148), which is caught at
\* line 1617; an exception of the duration lookup is caught at line 1439.
ProcessDiarize ==
    /\ pc = "process_diarize"
    /\ IF speaker_attribution
       THEN \/ /\ diarization_result' \in ProcessTurnLists
               /\ duration_result' \in ProcessDurations
               /\ pc' = "process_transcribe"
               /\ UNCHANGED <<raised, process_return>>
            \/ /\ raised' = "diarization"
               /\ process_return' = "False" /\ pc' = "process_done"
               /\ UNCHANGED <<diarization_result, duration_result>>
       ELSE /\ pc' = "process_transcribe"
            /\ UNCHANGED <<diarization_result, duration_result, raised, process_return>>
    /\ UNCHANGED <<timingVars, voteVars, mergeVars, splitVars, pipelineVars,
                   uniformVars, libs_available, input_exists, enhance_audio_enabled,
                   save_enhanced_audios, speaker_attribution, enhanced_audio_path,
                   temp_exists, transcription_result, main_text,
                   base_transcript_text, attribution_applied, warnings, written,
                   engineVars, diarizeVars,
                   maskerVars>>

\* lines 1442-1468: without a result the temporary file is removed and False
\* is returned; otherwise main_text and base_transcript_text are set
ProcessTranscribe ==
    /\ pc = "process_transcribe"
    /\ transcription_result' \in TranscriptionResults
    /\ IF transcription_result'.is_none
       THEN /\ temp_exists' =
                  IF enhance_audio_enabled /\ ~save_enhanced_audios
                     /\ enhanced_audio_path # None
                  THEN FALSE ELSE temp_exists
            /\ process_return' = "False" /\ pc' = "process_done"
            /\ UNCHANGED <<main_text, base_transcript_text>>
       ELSE /\ main_text' = transcription_result'.text
            /\ base_transcript_text' = transcription_result'.text
            /\ pc' = "process_attribute"
            /\ UNCHANGED <<temp_exists, process_return>>
    /\ UNCHANGED <<timingVars, voteVars, mergeVars, splitVars, pipelineVars,
                   uniformVars, libs_available, input_exists, enhance_audio_enabled,
                   save_enhanced_audios, speaker_attribution, enhanced_audio_path,
                   diarization_result, duration_result, attribution_applied,
                   warnings, written, raised,
                   engineVars, diarizeVars, maskerVars>>

\* lines 1470-1476: the call of apply_speaker_labels_to_transcript, or the
\* warning when attribution was requested but cannot be computed
ProcessAttribute ==
    /\ pc = "process_attribute"
    /\ IF AttributionAvailable(speaker_attribution, diarization_result, duration_result)
       THEN /\ attribution_applied' = TRUE
            /\ transcript_text' = main_text
            /\ diarization_segments' = diarization_result
            /\ audio_duration' = duration_result.value
            /\ pc' = "uniform"
            /\ UNCHANGED warnings
       ELSE /\ warnings' = IF speaker_attribution
                           THEN warnings \cup {DiarizationWarning} ELSE warnings
            /\ pc' = "process_text"
            /\ UNCHANGED <<attribution_applied, transcript_text, diarization_segments,
                           audio_duration>>
    /\ UNCHANGED <<timingVars, voteVars, mergeVars, splitVars, pipelineVars,
                   words, word_index, current_time, speaker_for_word,
                   current_speaker, current_text, result_lines,
                   attributed_transcript, libs_available, input_exists,
                   enhance_audio_enabled, save_enhanced_audios, speaker_attribution,
                   enhanced_audio_path, temp_exists, diarization_result,
                   duration_result, transcription_result, main_text,
                   base_transcript_text, written, raised, process_return,
                   engineVars, diarizeVars, maskerVars>>

\* line 1474: main_text takes the value returned by the uniform strategy
ProcessAttributed ==
    /\ pc = "process_attributed"
    /\ main_text' = attributed_transcript
    /\ pc' = "process_text"
    /\ UNCHANGED <<timingVars, voteVars, mergeVars, splitVars, pipelineVars,
                   uniformVars, libs_available, input_exists, enhance_audio_enabled,
                   save_enhanced_audios, speaker_attribution, enhanced_audio_path,
                   temp_exists, diarization_result, duration_result,
                   transcription_result, base_transcript_text, attribution_applied,
                   warnings, written, raised, process_return,
                   engineVars, diarizeVars, maskerVars>>

\* lines 1478-1517: name masker and cleaning; an exception is caught at 1617
ProcessText ==
    /\ pc = "process_text"
    /\ \E processed \in BOOLEAN :
          IF processed
          THEN pc' = "process_save" /\ UNCHANGED <<raised, process_return>>
          ELSE /\ raised' = "text processing"
               /\ process_return' = "False" /\ pc' = "process_done"
    /\ UNCHANGED <<timingVars, voteVars, mergeVars, splitVars, pipelineVars,
                   uniformVars, libs_available, input_exists, enhance_audio_enabled,
                   save_enhanced_audios, speaker_attribution, enhanced_audio_path,
                   temp_exists, diarization_result, duration_result,
                   transcription_result, main_text, base_transcript_text,
                   attribution_applied, warnings, written,
                   engineVars, diarizeVars, maskerVars>>

\* lines 1519-1601: the files are written in order; an exception while
\* writing one of them leaves the earlier ones and is caught at line 1617
ProcessSave ==
    /\ pc = "process_save"
    /\ LET files == SaveSequence(AttributionAvailable(speaker_attribution,
                                                      diarization_result,
                                                      duration_result),
                                 base_transcript_text, main_text, speaker_attribution)
       IN  \E done \in 0..Len(files) :
              /\ written' = SubSeq(files, 1, done)
              /\ IF done = Len(files)
                 THEN pc' = "process_cleanup" /\ UNCHANGED <<raised, process_return>>
                 ELSE /\ raised' = "saving"
                      /\ process_return' = "False" /\ pc' = "process_done"
    /\ UNCHANGED <<timingVars, voteVars, mergeVars, splitVars, pipelineVars,
                   uniformVars, libs_available, input_exists, enhance_audio_enabled,
                   save_enhanced_audios, speaker_attribution, enhanced_audio_path,
                   temp_exists, diarization_result, duration_result,
                   transcription_result, main_text, base_transcript_text,
                   attribution_applied, warnings,
                   engineVars, diarizeVars, maskerVars>>

\* lines 1603-1615: the temporary enhanced audio is removed, True is returned
ProcessCleanup ==
    /\ pc = "process_cleanup"
    /\ temp_exists' =
          IF enhance_audio_enabled /\ ~save_enhanced_audios /\ enhanced_audio_path # None
          THEN FALSE ELSE temp_exists
    /\ process_return' = "True"
    /\ pc' = "process_done"
    /\ UNCHANGED <<timingVars, voteVars, mergeVars, splitVars, pipelineVars,
                   uniformVars, libs_available, input_exists, enhance_audio_enabled,
                   save_enhanced_audios, speaker_attribution, enhanced_audio_path,
                   diarization_result, duration_result, transcription_result,
                   main_text, base_transcript_text, attribution_applied, warnings,
                   written, raised,
                   engineVars, diarizeVars, maskerVars>>

NextProcess ==
    \/ ProcessEnhance \/ ProcessDiarize \/ ProcessTranscribe \/ ProcessAttribute
    \/ UniformBegin \/ UniformWord \/ UniformReturn
    \/ ProcessAttributed \/ ProcessText \/ ProcessSave \/ ProcessCleanup

SpecProcess == InitProcess /\ [][NextProcess]_vars

----------------------------------------------------------------------------
(* Properties of process_audio_file *)

ProcessReturned == pc = "process_done"

\* the written files of one name
FilesNamed(name) == {i \in 1..Len(written) : written[i].name = name}

\* C17 (attribution never blocks the base transcript): whenever transcription
\* returned a result and neither text processing nor saving raised, the file
\* <base>_transcript.txt is written from the unlabelled transcription text:
\* next to <base>_transcript_with_speakers.txt when attribution was applied,
\* and as the single text file, with the warning printed, when attribution
\* was requested but diarization or the duration is missing.  Whatever was
\* written, the unlabelled text file was written first.
C17_BaseTranscriptWritten ==
    (ProcessReturned /\ ~transcription_result.is_none) =>
        /\ raised \in {NoRaise, "text processing", "saving"}
        /\ written # <<>> =>
              /\ written[1].name = "_transcript.txt"
              /\ written[1].cleaned_from = transcription_result.text
        /\ raised = NoRaise =>
              /\ process_return = "True"
              /\ FilesNamed("_transcript.txt") = {1}
              /\ attribution_applied =>
                    \E i \in FilesNamed("_transcript_with_speakers.txt") :
                        written[i].cleaned_from = attributed_transcript
              /\ (speaker_attribution /\ ~attribution_applied) =>
                    /\ FilesNamed("_transcript_with_speakers.txt") = {}
                    /\ DiarizationWarning \in warnings

C17_Witness ==
    /\ ProcessReturned
    /\ process_return = "True"
    /\ speaker_attribution
    /\ diarization_result.turns # <<>>
    /\ duration_result.is_none
    /\ Len(transcription_result.text) = MaxProcessChars
    /\ FilesNamed("_transcript.txt") = {1}
    /\ DiarizationWarning \in warnings

----------------------------------------------------------------------------
(* Order of the turn list *)

\* the orderings of a list: the list composed with every bijection of its indices
Orderings(list) ==
    {[i \in 1..Len(list) |-> list[p[i]]] :
        p \in {q \in [1..Len(list) -> 1..Len(list)] :
                  \A i, j \in 1..Len(list) : q[i] = q[j] => i = j}}

\* C21 (turn order independence): for a fixed unit span the returned speaker
\* is the same for every permutation of the diarization turn list.
C21_TurnOrderIndependence ==
    (VoteReturned /\ raw_diarization # <<>>) =>
        \A turns \in Orderings(raw_diarization) :
            FindSpeakerForTimeSegment(start_time, end_time, turns) = speaker

----------------------------------------------------------------------------
(* Two invocations of the engine's methods running interleaved on separate
   inputs.  The dicts of the input lists live in a heap of objects; a list of
   dicts is a list of references, so that a write through a reference that
   was not copied shows in the caller's input.  Source:
   src/src/enhanced_speaker_attribution.py lines 217-299. *)

MaxEngineItems == 2

EngineMethods == {"timing", "vote", "merge"}

\* references: <<invocation, "in" for an input object or "copy", position>>
Addrs == Threads \X {"in", "copy"} \X (1..MaxEngineItems)
InputAddrs == {a \in Addrs : a[2] = "in"}

EngineSentences == {<<"a">>, <<"a", "a">>}
EngineDurations == {1, 2}
EngineTurns ==
    {[start |-> a, end |-> a + 1, speaker |-> s, text |-> <<>>] :
        a \in {0, 2}, s \in Speakers}
EngineSegments ==
    {[start |-> a, end |-> a + 1, speaker |-> s, text |-> UnitText(a)] :
        a \in {0, GapThresholdTicks + 1}, s \in Speakers}

\* the calls an invocation may make: method, input values and arguments
EngineCalls ==
    {[fn |-> "timing", values |-> ss,
      args |-> [total_duration |-> D, start_time |-> 0, end_time |-> 0]] :
        ss \in SeqsUpTo(EngineSentences, MaxEngineItems), D \in EngineDurations}
    \cup
    {[fn |-> "vote", values |-> ts,
      args |-> [total_duration |-> 0, start_time |-> 0, end_time |-> 2]] :
        ts \in SeqsUpTo(EngineTurns, MaxEngineItems) \ {<<>>}}
    \cup
    {[fn |-> "merge", values |-> sg, args |-> NoArgs] :
        sg \in SeqsUpTo(EngineSegments, MaxEngineItems)}

\* the objects a list of references refers to
Deref(h, refs) == [k \in 1..Len(refs) |-> h[refs[k]]]

\* lines 279 and 294: dict.copy() makes a new object; without it the local
\* name refers to the caller's object
CopyAddress_alias(t, i, src) == src
CopyAddress(t, i, src) == <<t, "copy", i>>

InitEngine ==
    /\ pc = "engine"
    /\ \E c \in [Threads -> EngineCalls] :
          /\ call_fn = [t \in Threads |-> c[t].fn]
          /\ call_args = [t \in Threads |-> c[t].args]
          /\ call_list = [t \in Threads |->
                             IF c[t].fn = "timing" THEN c[t].values
                             ELSE [k \in 1..Len(c[t].values) |-> <<t, "in", k>>]]
          /\ heap = [a \in Addrs |->
                        IF a[2] = "in" /\ c[a[1]].fn # "timing"
                           /\ a[3] <= Len(c[a[1]].values)
                        THEN c[a[1]].values[a[3]] ELSE NoSegment]
    /\ call_list0 = call_list /\ heap0 = heap
    /\ call_pc = [t \in Threads |-> "start"]
    /\ call_i = [t \in Threads |-> 0]
    /\ call_locals = [t \in Threads |-> NoLocals]
    /\ call_result = [t \in Threads |-> <<>>]
    /\ self_debug = TRUE
    /\ sentences = <<>> /\ total_duration = 0 /\ sentence_timings = NoResult
    /\ start_time = 0 /\ end_time = 0 /\ raw_diarization = <<>> /\ speaker = NoResult
    /\ MergeIdle /\ SplitIdle /\ PipelineIdle /\ UniformIdle /\ ProcessIdle /\ DiarizeIdle /\ MaskerIdle

\* what every engine step leaves alone: the other operations, the instance
\* attribute, the arguments and the input lists
EngineFrame ==
    UNCHANGED <<pc, timingVars, voteVars, mergeVars, splitVars, pipelineVars,
                uniformVars, processVars, call_fn, call_args, call_list,
                call_list0, heap0, self_debug,
                   diarizeVars,
                   maskerVars>>

\* lines 220-225: total_chars, the guard and the initial current_time
TimingBegin(t) ==
    /\ call_fn[t] = "timing" /\ call_pc[t] = "start"
    /\ IF TotalChars(call_list[t]) = 0
       THEN /\ call_result' = [call_result EXCEPT ![t] = <<>>]
            /\ call_pc' = [call_pc EXCEPT ![t] = "done"]
            /\ UNCHANGED <<call_i, call_locals>>
       ELSE /\ call_locals' = [call_locals EXCEPT ![t].current_time = 0, ![t].acc = <<>>]
            /\ call_i' = [call_i EXCEPT ![t] = 1]
            /\ call_pc' = [call_pc EXCEPT ![t] = "loop"]
            /\ UNCHANGED call_result
    /\ UNCHANGED heap
    /\ EngineFrame

\* lines 227-238: one iteration of the loop over the sentences
TimingStep(t) ==
    /\ call_fn[t] = "timing" /\ call_pc[t] = "loop"
    /\ call_i[t] <= Len(call_list[t])
    /\ LET sentence == call_list[t][call_i[t]]
           D == call_args[t].total_duration
           cur == call_locals[t].current_time
           end == Min(cur + ScaledDuration(sentence, D), D * TotalChars(call_list[t]))
       IN  call_locals' =
              [call_locals EXCEPT
                  ![t].acc = Append(@, [sentence |-> sentence, start |-> cur, end |-> end]),
                  ![t].current_time = end]
    /\ call_i' = [call_i EXCEPT ![t] = @ + 1]
    /\ UNCHANGED <<heap, call_pc, call_result>>
    /\ EngineFrame

\* line 240
TimingReturn(t) ==
    /\ call_fn[t] = "timing" /\ call_pc[t] = "loop"
    /\ call_i[t] > Len(call_list[t])
    /\ call_result' = [call_result EXCEPT ![t] = call_locals[t].acc]
    /\ call_pc' = [call_pc EXCEPT ![t] = "done"]
    /\ UNCHANGED <<heap, call_i, call_locals>>
    /\ EngineFrame

\* line 246: overlapping_segments = []
VoteBegin(t) ==
    /\ call_fn[t] = "vote" /\ call_pc[t] = "start"
    /\ call_locals' = [call_locals EXCEPT ![t].acc = <<>>]
    /\ call_i' = [call_i EXCEPT ![t] = 1]
    /\ call_pc' = [call_pc EXCEPT ![t] = "loop"]
    /\ UNCHANGED <<heap, call_result>>
    /\ EngineFrame

\* lines 248-260: one iteration of the loop over the turns
VoteStep(t) ==
    /\ call_fn[t] = "vote" /\ call_pc[t] = "loop"
    /\ call_i[t] <= Len(call_list[t])
    /\ LET seg == heap[call_list[t][call_i[t]]]
           st == call_args[t].start_time
           en == call_args[t].end_time
       IN  call_locals' =
              IF Max(st, seg.start) < Min(en, seg.end)
              THEN [call_locals EXCEPT
                       ![t].acc = Append(@, [speaker |-> seg.speaker,
                                             overlap_duration |-> OverlapDuration(st, en, seg),
                                             start |-> seg.start, end |-> seg.end])]
              ELSE call_locals
    /\ call_i' = [call_i EXCEPT ![t] = @ + 1]
    /\ UNCHANGED <<heap, call_pc, call_result>>
    /\ EngineFrame

\* lines 262-270: the nearest turn without overlap, else the largest overlap
VoteReturn(t) ==
    /\ call_fn[t] = "vote" /\ call_pc[t] = "loop"
    /\ call_i[t] > Len(call_list[t])
    /\ LET overlapping == call_locals[t].acc
           turns == Deref(heap, call_list[t])
           st == call_args[t].start_time
           en == call_args[t].end_time
       IN  call_result' =
              [call_result EXCEPT ![t] =
                  IF overlapping = <<>>
                  THEN turns[ArgMin([k \in 1..Len(turns) |->
                                        NearestKey(st, en, turns[k])])].speaker
                  ELSE overlapping[ArgMax([k \in 1..Len(overlapping) |->
                                              overlapping[k].overlap_duration])].speaker]
    /\ call_pc' = [call_pc EXCEPT ![t] = "done"]
    /\ UNCHANGED <<heap, call_i, call_locals>>
    /\ EngineFrame

\* lines 274-279: the guard, merged = [] and the copy of the first segment
EngineMergeBegin(t) ==
    /\ call_fn[t] = "merge" /\ call_pc[t] = "start"
    /\ IF call_list[t] = <<>>
       THEN /\ call_result' = [call_result EXCEPT ![t] = <<>>]
            /\ call_pc' = [call_pc EXCEPT ![t] = "done"]
            /\ UNCHANGED <<heap, call_i, call_locals>>
       ELSE LET src == call_list[t][1]
                new == CopyAddress(t, 1, src)
            IN  /\ heap' = [heap EXCEPT ![new] = heap[src]]
                /\ call_locals' = [call_locals EXCEPT ![t].current_segment = new,
                                                      ![t].merged = <<>>]
                /\ call_i' = [call_i EXCEPT ![t] = 2]
                /\ call_pc' = [call_pc EXCEPT ![t] = "loop"]
                /\ UNCHANGED call_result
    /\ EngineFrame

\* lines 281-294: one iteration; a merge writes 'end' and 'text' through the
\* reference current_segment
EngineMergeStep(t) ==
    /\ call_fn[t] = "merge" /\ call_pc[t] = "loop"
    /\ call_i[t] <= Len(call_list[t])
    /\ LET cur == call_locals[t].current_segment
           src == call_list[t][call_i[t]]
       IN  IF ShouldMerge(heap[cur], heap[src])
           THEN /\ heap' = [heap EXCEPT ![cur] = MergeInto(heap[cur], heap[src])]
                /\ UNCHANGED call_locals
           ELSE LET new == CopyAddress(t, call_i[t], src)
                IN  /\ heap' = [heap EXCEPT ![new] = heap[src]]
                    /\ call_locals' =
                          [call_locals EXCEPT ![t].merged = Append(@, cur),
                                              ![t].current_segment = new]
    /\ call_i' = [call_i EXCEPT ![t] = @ + 1]
    /\ UNCHANGED <<call_pc, call_result>>
    /\ EngineFrame

\* lines 296-299: the open segment is appended and the list returned
EngineMergeReturn(t) ==
    /\ call_fn[t] = "merge" /\ call_pc[t] = "loop"
    /\ call_i[t] > Len(call_list[t])
    /\ call_result' =
          [call_result EXCEPT ![t] =
              Append(call_locals[t].merged, call_locals[t].current_segment)]
    /\ call_pc' = [call_pc EXCEPT ![t] = "done"]
    /\ UNCHANGED <<heap, call_i, call_locals>>
    /\ EngineFrame

NextEngine ==
    \E t \in Threads :
        \/ TimingBegin(t) \/ TimingStep(t) \/ TimingReturn(t)
        \/ VoteBegin(t) \/ VoteStep(t) \/ VoteReturn(t)
        \/ EngineMergeBegin(t) \/ EngineMergeStep(t) \/ EngineMergeReturn(t)

SpecEngine == InitEngine /\ [][NextEngine]_vars

----------------------------------------------------------------------------
(* Properties of the interleaved calls *)

\* the value an invocation returned: a returned list of references is read
\* through the heap
EngineOutput(t) ==
    IF call_fn[t] = "merge" THEN Deref(heap, call_result[t]) ELSE call_result[t]

\* the value the same call returns when it runs alone on its input as given
RunAlone(t) ==
    IF call_fn[t] = "timing"
    THEN EstimateSentenceTimings(call_list0[t], call_args[t].total_duration)
    ELSE IF call_fn[t] = "vote"
         THEN FindSpeakerForTimeSegment(call_args[t].start_time, call_args[t].end_time,
                                        Deref(heap0, call_list0[t]))
         ELSE MergeConsecutiveSameSpeaker(Deref(heap0, call_list0[t]), GapThresholdTicks)

\* C22 (no shared or mutated state): at every point of two interleaved calls
\* the input lists and every input record are as they were given, the
\* instance attribute is as __init__ left it, and a call that has returned
\* has returned what it returns when run alone on its input.
C22_NoSharedMutatedState ==
    /\ call_list = call_list0
    /\ \A a \in DOMAIN heap : a[2] = "in" => heap[a] = heap0[a]
    /\ self_debug = TRUE
    /\ \A t \in Threads : call_pc[t] = "done" => EngineOutput(t) = RunAlone(t)

\* both calls are inside their loops, and the first has merged its second
\* segment into the copy of its first
C22_Witness ==
    /\ pc = "engine"
    /\ \A t \in Threads : call_fn[t] = "merge" /\ call_pc[t] = "loop"
    /\ call_i[1] = 3 /\ call_i[2] = 2
    /\ call_locals[1].merged = <<>>
    /\ heap[call_locals[1].current_segment].text # heap[call_list[1][1]].text
    /\ heap[call_list[1][1]] = heap0[call_list[1][1]]

----------------------------------------------------------------------------
(* perform_speaker_diarization, src/transcription.py lines 1133-1213 *)

MaxTracks == 2

\* what the import statements of lines 1143-1144 can do: succeed, or raise
\* ImportError, OSError, or an exception of another class raised by the
\* top-level code of the imported packages
ImportResults == {"ok", "ImportError", "OSError", "other exception"}

\* an environment variable: unset, set to the empty string, or set to a token
EnvValues == {None, "", "hf_token_value"}

\* hf_token.txt: missing, unreadable (open raises), or by content
TokenFiles == {"missing", "unreadable", "empty", "blank", "token"}

\* f.read().strip() of line 1159
StrippedContent(file) == IF file = "token" THEN "hf_token_value" ELSE ""

\* truth value of a str-or-None
Truthy(v) == v # None /\ v # ""

\* line 1152: os.environ.get("HF_TOKEN") or os.environ.get("HUGGINGFACE_TOKEN")
PythonOr(a, b) == IF Truthy(a) THEN a ELSE b

\* the except clause of line 1145: (ImportError, OSError)
ImportCaught(result) == result \in {"ImportError", "OSError"}

\* the tracks the pipeline may yield (lines 1193-1198)
Tracks == SeqsUpTo({t \in UniformTurns : t.start <= t.end}, MaxTracks)

InitDiarize ==
    /\ pc = "diarize"
    /\ import_result \in ImportResults
    /\ env_hf_token \in EnvValues /\ env_huggingface_token \in EnvValues
    /\ token_file \in TokenFiles
    /\ hf_token = None /\ pipeline_outcome = "not loaded"
    /\ diarize_return = NoneSegments /\ diarize_raised = NoRaise
    /\ sentences = <<>> /\ total_duration = 0 /\ sentence_timings = NoResult
    /\ start_time = 0 /\ end_time = 0 /\ raw_diarization = <<>> /\ speaker = NoResult
    /\ MergeIdle /\ SplitIdle /\ PipelineIdle /\ UniformIdle /\ ProcessIdle /\ EngineIdle /\ MaskerIdle

DiarizeFrame ==
    UNCHANGED <<timingVars, voteVars, mergeVars, splitVars, pipelineVars, uniformVars,
                processVars, engineVars, import_result, env_hf_token,
                env_huggingface_token, token_file,
                   maskerVars>>

\* lines 1142-1148: the imports; a caught failure returns None, any other
\* exception leaves the function
DiarizeImport ==
    /\ pc = "diarize"
    /\ IF import_result = "ok"
       THEN pc' = "diarize_token" /\ UNCHANGED <<diarize_return, diarize_raised>>
       ELSE IF ImportCaught(import_result)
            THEN /\ diarize_return' = NoneSegments /\ pc' = "diarize_done"
                 /\ UNCHANGED diarize_raised
            ELSE /\ diarize_raised' = import_result /\ pc' = "diarize_done"
                 /\ UNCHANGED diarize_return
    /\ UNCHANGED <<hf_token, pipeline_outcome>>
    /\ DiarizeFrame

\* lines 1152-1165: the token from the environment, else from hf_token.txt;
\* an unreadable file raises inside the try of line 1150 (caught at 1210)
DiarizeToken ==
    /\ pc = "diarize_token"
    /\ LET from_env == PythonOr(env_hf_token, env_huggingface_token)
       IN  IF ~Truthy(from_env) /\ token_file = "unreadable"
           THEN /\ diarize_return' = NoneSegments /\ pc' = "diarize_done"
                /\ hf_token' = from_env
           ELSE /\ hf_token' = IF ~Truthy(from_env) /\ token_file # "missing"
                               THEN StrippedContent(token_file) ELSE from_env
                /\ IF ~Truthy(hf_token')
                   THEN diarize_return' = NoneSegments /\ pc' = "diarize_done"
                   ELSE UNCHANGED diarize_return /\ pc' = "diarize_load"
    /\ UNCHANGED <<pipeline_outcome, diarize_raised>>
    /\ DiarizeFrame

\* lines 1167-1185: from_pretrained with use_auth_token, retried with token
\* on TypeError, then pipeline.to(device); any exception is caught at 1210
DiarizeLoad ==
    /\ pc = "diarize_load"
    /\ \E first \in {"ok", "TypeError", "other exception"}, second \in {"ok", "raises"},
          moved \in BOOLEAN :
          IF (first = "ok" \/ (first = "TypeError" /\ second = "ok")) /\ moved
          THEN /\ pipeline_outcome' = "loaded" /\ pc' = "diarize_run"
               /\ UNCHANGED diarize_return
          ELSE /\ pipeline_outcome' = "load raised"
               /\ diarize_return' = NoneSegments /\ pc' = "diarize_done"
    /\ UNCHANGED <<hf_token, diarize_raised>>
    /\ DiarizeFrame

\* lines 1187-1204: the pipeline runs and its tracks become the segments;
\* any exception is caught at line 1210
DiarizeRun ==
    /\ pc = "diarize_run"
    /\ \/ /\ pipeline_outcome' = "run raised"
          /\ diarize_return' = NoneSegments
       \/ /\ pipeline_outcome' = "completed"
          /\ \E tracks \in Tracks : diarize_return' = SomeSegments(tracks)
    /\ pc' = "diarize_done"
    /\ UNCHANGED <<hf_token, diarize_raised>>
    /\ DiarizeFrame

NextDiarize == DiarizeImport \/ DiarizeToken \/ DiarizeLoad \/ DiarizeRun

SpecDiarize == InitDiarize /\ [][NextDiarize]_vars

----------------------------------------------------------------------------
(* Properties of perform_speaker_diarization *)

DiarizeReturned == pc = "diarize_done"

\* a token is found in the environment or in hf_token.txt
TokenFound ==
    \/ Truthy(env_hf_token) \/ Truthy(env_huggingface_token)
    \/ token_file = "token"

\* C23 (diarization failure is a value): no exception leaves the function;
\* it returns None when the import fails, when no token is found and when
\* loading or running the pipeline raises; it returns a list only when the
\* pipeline ran to completion.
C23_DiarizationFailureIsValue ==
    DiarizeReturned =>
        /\ diarize_raised = NoRaise
        /\ import_result # "ok" => diarize_return.is_none
        /\ ~TokenFound => diarize_return.is_none
        /\ pipeline_outcome \in {"load raised", "run raised"} => diarize_return.is_none
        /\ ~diarize_return.is_none => pipeline_outcome = "completed"

----------------------------------------------------------------------------
(* Further properties of the uniform strategy *)

\* the words of the lines, in the order of the lines
RECURSIVE LineWords(_)
LineWords(lines) ==
    IF lines = <<>> THEN <<>> ELSE lines[1].words \o LineWords(Tail(lines))

\* C24 (words are conserved): for a transcript with at least one word and a
\* non-empty turn list, the returned lines hold every word of the transcript
\* exactly once and in the original order, also when no turn contains any
\* estimated word time.
C24_WordsConserved ==
    (UniformReturned /\ SplitWords(transcript_text) # <<>>
        /\ ~diarization_segments.is_none /\ diarization_segments.turns # <<>>) =>
        /\ LineWords(result_lines) = SplitWords(transcript_text)
        /\ attributed_transcript = JoinLines(result_lines)

\* C27 (lines alternate): any two consecutive lines of the output carry
\* different speaker labels, and a line is opened only at a word whose
\* containing turn has a speaker different from the current one.
C27_LinesAlternate ==
    /\ [](InUniformLoop =>
             \A i \in 1..(Len(result_lines) - 1) :
                 result_lines[i].label # result_lines[i + 1].label)
    /\ [][(pc = "uniform_loop" /\ word_index' = word_index + 1
             /\ current_text' # Append(current_text, words[word_index + 1])) =>
             /\ Containing(word_index) # {}
             /\ FirstContainingSpeaker(word_index) # current_speaker
             /\ current_speaker' = FirstContainingSpeaker(word_index)]_vars

\* two lines of two found speakers came back, the first one of two words that
\* both lie in a turn
C27_Witness ==
    /\ UniformReturned
    /\ Len(result_lines) = 2
    /\ result_lines[1].label # None
    /\ Len(result_lines[1].words) = 2
    /\ Containing(0) # {} /\ Containing(1) # {} /\ Containing(2) # {}
    /\ FirstContainingSpeaker(2) = result_lines[2].label

----------------------------------------------------------------------------
(* Further properties of process_audio_file *)

\* C28 (header matches content): the header line "Speaker attribution:
\* Enabled ..." is written only into a file whose text had speaker labels
\* applied; when attribution was requested but skipped, the single unlabelled
\* transcript does not carry it.
C28_HeaderMatchesContent ==
    \A i \in 1..Len(written) :
        written[i].speaker_header =>
            /\ attribution_applied
            /\ written[i].cleaned_from = attributed_transcript

\* C29 (temporary enhanced audio is always removed): with enhancement enabled
\* and save_enhanced_audios false, the temporary file created by mkstemp no
\* longer exists when the function returns, on every exit path: success,
\* transcription failure, and an exception raised by enhancement, by the
\* diarization step, by text processing or by saving.
C29_TempAlwaysRemoved ==
    (ProcessReturned /\ enhance_audio_enabled /\ ~save_enhanced_audios) =>
        ~temp_exists

----------------------------------------------------------------------------
(* create_enhanced_name_masker, src/transcription.py lines 548-687: the
   closure pair mask_names_with_logging / get_replacement_log over the
   closure variable replacement_log.  Lists are objects of log_heap, so that
   a list a caller holds and the list the closure variable names can be told
   apart.  Only the list of the closure variable and the one the caller holds
   are reachable; the others are free. *)

MaxMaskWords == 2

\* the name databases of one masker (lines 564-579) and the titles of line 582
FirstNames == {<<"a", "l">>}
Surnames == {<<"l", "i">>}
Titles ==
    {<<"m", "r">>, <<"m", "r", "s">>, <<"m", "s">>, <<"m", "i", "s", "s">>,
     <<"d", "r">>, <<"p", "r", "o", "f">>,
     <<"p", "r", "o", "f", "e", "s", "s", "o", "r">>, <<"s", "i", "r">>,
     <<"m", "a", "d", "a", "m">>, <<"l", "o", "r", "d">>, <<"l", "a", "d", "y">>}

UpperLetters == {"A", "D", "L"}
LowerLetters == {"a", "d", "e", "f", "i", "l", "m", "o", "p", "r", "s", "y"}

\* str.lower() of one character
LowerChar(c) ==
    CASE c = "A" -> "a" [] c = "D" -> "d" [] c = "L" -> "l" [] OTHER -> c

\* \w of lines 606, 638 and 656
IsWordChar(c) == c \in UpperLetters \cup LowerLetters

\* line 606: re.sub(r'[^\w]', '', word.lower())
RECURSIVE CleanWord(_)
CleanWord(word) ==
    IF word = <<>> THEN <<>>
    ELSE (IF IsWordChar(LowerChar(Head(word))) THEN <<LowerChar(Head(word))>> ELSE <<>>)
         \o CleanWord(Tail(word))

\* lines 656-662: ''.join(re.findall(r'[^\w]', word))
RECURSIVE PunctuationOf(_)
PunctuationOf(word) ==
    IF word = <<>> THEN <<>>
    ELSE (IF IsWordChar(Head(word)) THEN <<>> ELSE <<Head(word)>>)
         \o PunctuationOf(Tail(word))

\* lines 614, 639: word[0].isupper() if word else False
IsCapitalized(word) == word # <<>> /\ Head(word) \in UpperLetters

\* line 592: re.split(r'(?<=[.!?])\s+', text), from position i with the piece
\* cur open; the last piece is returned also when it is empty
RECURSIVE SplitSentencesFrom(_, _, _)
SplitSentencesFrom(text, i, cur) ==
    IF i > Len(text) THEN <<cur>>
    ELSE IF text[i] \in Whitespace /\ i > 1 /\ text[i - 1] \in Punctuation
         THEN <<cur>> \o SplitSentencesFrom(text, RunEnd(text, i, Whitespace), <<>>)
         ELSE SplitSentencesFrom(text, i + 1, Append(cur, text[i]))
SplitSentences(text) == SplitSentencesFrom(text, 1, <<>>)

\* the tokens written in place of a word
TitleMark == "[TITLE]"
SurnameMark == "[SURNAME]"
NameMark == "[NAME]"
Marks == {TitleMark, SurnameMark, NameMark}

\* the dict of lines 642-648 and 665-671
LogEntry(order, original, replacement, sentence, filename) ==
    [order |-> order, original |-> original, replacement |-> replacement,
     context_sentence |-> Strip(sentence), filename |-> filename]

\* lines 637-640: the word is a title followed, in the same sentence, by a
\* capitalized word of a name database
TitleBeforeName(ws, k) ==
    /\ CleanWord(ws[k]) \in Titles
    /\ k + 1 <= Len(ws)
    /\ IsCapitalized(ws[k + 1])
    /\ CleanWord(ws[k + 1]) \in FirstNames \cup Surnames

\* line 627: should_mask
ShouldMask(word) ==
    IsCapitalized(word) /\ CleanWord(word) \in FirstNames \cup Surnames

\* lines 659-662
Replacement(word) ==
    (IF CleanWord(word) \in Surnames THEN <<SurnameMark>> ELSE <<NameMark>>)
    \o PunctuationOf(word)

\* lines 604-676: the loop over the words ws of one sentence from word k on
\* (1-based), with the counter at its value before word k; yields the masked
\* words and the entries appended to the log
RECURSIVE MaskWords(_, _, _, _, _)
MaskWords(ws, k, counter, sentence, filename) ==
    IF k > Len(ws) THEN [masked_words |-> <<>>, appended |-> <<>>]
    ELSE IF CleanWord(ws[k]) = <<>>
         THEN LET rest == MaskWords(ws, k + 1, counter, sentence, filename)
              IN  [rest EXCEPT !.masked_words = <<ws[k]>> \o @]
    ELSE IF TitleBeforeName(ws, k)
         THEN LET rest == MaskWords(ws, k + 1, counter + 1, sentence, filename)
              IN  [masked_words |-> <<<<TitleMark>>>> \o rest.masked_words,
                   appended |->
                       <<LogEntry(counter, ws[k], <<TitleMark>>, sentence, filename)>>
                       \o rest.appended]
    ELSE IF ShouldMask(ws[k])
         THEN LET rest == MaskWords(ws, k + 1, counter + 1, sentence, filename)
              IN  [masked_words |-> <<Replacement(ws[k])>> \o rest.masked_words,
                   appended |->
                       <<LogEntry(counter, ws[k], Replacement(ws[k]), sentence,
                                  filename)>>
                       \o rest.appended]
    ELSE LET rest == MaskWords(ws, k + 1, counter, sentence, filename)
         IN  [rest EXCEPT !.masked_words = <<ws[k]>> \o @]

\* the heap without the lists that neither the closure variable nor the
\* caller refers to any more
Reachable(h, current, held) ==
    [a \in LogAddrs |->
        IF a = current \/ (~held.is_none /\ a = held.addr) THEN h[a] ELSE <<>>]

\* line 590 emptying the list in place instead of binding a new one
NewLog_clearedInPlace(current, held) == current
\* line 590, `replacement_log = []`: a list object that nothing refers to
NewLog(current, held) ==
    CHOOSE a \in LogAddrs : a # current /\ (held.is_none \/ a # held.addr)

MaskWordShapes == {<<"D", "r">>, <<"A", "l">>, <<"L", "i", ".">>}
MaskTexts == {JoinWords(ws) : ws \in SeqsUpTo(MaskWordShapes, MaxMaskWords)}
MaskFilenames == {"a.wav"}

InitMasker ==
    /\ pc = "masker"
    /\ MaskerIdle
    /\ sentences = <<>> /\ total_duration = 0 /\ sentence_timings = NoResult
    /\ start_time = 0 /\ end_time = 0 /\ raw_diarization = <<>> /\ speaker = NoResult
    /\ MergeIdle /\ SplitIdle /\ PipelineIdle /\ UniformIdle /\ ProcessIdle
    /\ EngineIdle /\ DiarizeIdle

MaskerFrame ==
    UNCHANGED <<timingVars, voteVars, mergeVars, splitVars, pipelineVars,
                uniformVars, processVars, engineVars, diarizeVars>>

\* lines 587-594: a call of mask_names_with_logging binds a new list to the
\* closure variable and splits the text
MaskBegin ==
    /\ pc = "masker"
    /\ \E text \in MaskTexts, filename \in MaskFilenames :
          /\ mask_text' = text
          /\ mask_filename' = filename
          /\ mask_sentences' = SplitSentences(text)
    /\ replacement_log' = NewLog(replacement_log, held_log)
    /\ log_heap' = Reachable([log_heap EXCEPT ![replacement_log'] = <<>>],
                             replacement_log', held_log)
    /\ sentence_idx' = 0
    /\ masked_sentences' = <<>>
    /\ replacement_counter' = 1
    /\ masked_text' = NoneText
    /\ pc' = "mask_loop"
    /\ UNCHANGED <<held_log, held_snapshot>>
    /\ MaskerFrame

\* lines 596-678: one iteration of the loop over the sentences
MaskSentence ==
    /\ pc = "mask_loop"
    /\ sentence_idx < Len(mask_sentences)
    /\ LET sentence == mask_sentences[sentence_idx + 1]
       IN  IF Strip(sentence) = <<>>
           THEN /\ masked_sentences' = Append(masked_sentences, sentence)
                /\ UNCHANGED <<log_heap, replacement_counter>>
           ELSE LET done == MaskWords(SplitWords(sentence), 1, replacement_counter,
                                      sentence, mask_filename)
                IN  /\ masked_sentences' =
                          Append(masked_sentences, JoinWords(done.masked_words))
                    /\ log_heap' =
                          [log_heap EXCEPT ![replacement_log] = @ \o done.appended]
                    /\ replacement_counter' = replacement_counter + Len(done.appended)
    /\ sentence_idx' = sentence_idx + 1
    /\ UNCHANGED <<pc, mask_text, mask_filename, mask_sentences, masked_text,
                   replacement_log, held_log, held_snapshot>>
    /\ MaskerFrame

\* line 680: return ' '.join(masked_sentences)
MaskReturn ==
    /\ pc = "mask_loop"
    /\ sentence_idx = Len(mask_sentences)
    /\ masked_text' = SomeText(JoinWords(masked_sentences))
    /\ pc' = "masker"
    /\ UNCHANGED <<mask_text, mask_filename, mask_sentences, sentence_idx,
                   masked_sentences, replacement_counter, log_heap, replacement_log,
                   held_log, held_snapshot>>
    /\ MaskerFrame

\* lines 682-684: get_replacement_log returns the list of the closure
\* variable itself; the caller keeps it (line 1507)
GetReplacementLog ==
    /\ pc = "masker"
    /\ held_log' = SomeLog(replacement_log)
    /\ held_snapshot' = log_heap[replacement_log]
    /\ log_heap' = Reachable(log_heap, replacement_log, held_log')
    /\ UNCHANGED <<pc, mask_text, mask_filename, mask_sentences, sentence_idx,
                   masked_sentences, replacement_counter, masked_text,
                   replacement_log>>
    /\ MaskerFrame

NextMasker == MaskBegin \/ MaskSentence \/ MaskReturn \/ GetReplacementLog

SpecMasker == InitMasker /\ [][NextMasker]_vars

----------------------------------------------------------------------------
(* Properties of the name masker *)

\* a call of mask_names_with_logging has returned and no other one runs
MaskReturned == pc = "masker" /\ ~masked_text.is_none

\* the positions of the words of the returned text that are marks
ReplacedAt(out) == {k \in 1..Len(out) : Head(out[k]) \in Marks}

\* the n-th smallest element of a set of numbers
NthOf(S, n) == CHOOSE k \in S : Cardinality({j \in S : j <= k}) = n

\* C30 (the log is per call): after any sequence of calls of
\* mask_names_with_logging, get_replacement_log returns only the entries of
\* the most recent call, one entry per token replaced by [NAME], [SURNAME] or
\* [TITLE] in that call, with 'order' 1, 2, ..., n in order of occurrence; a
\* log list obtained before a later call is not modified by that later call.
C30_LogPerCall ==
    /\ MaskReturned =>
          LET log == log_heap[replacement_log]
              inp == SplitWords(mask_text)
              out == SplitWords(masked_text.text)
          IN  /\ Len(out) = Len(inp)
              /\ Len(log) = Cardinality(ReplacedAt(out))
              /\ \A n \in 1..Len(log) :
                    /\ log[n].order = n
                    /\ log[n].filename = mask_filename
                    /\ log[n].replacement = out[NthOf(ReplacedAt(out), n)]
                    /\ log[n].original = inp[NthOf(ReplacedAt(out), n)]
                    /\ Head(log[n].original) \notin Marks
    /\ ~held_log.is_none => log_heap[held_log.addr] = held_snapshot

\* a caller holds the non-empty log of an earlier call while the log of the
\* most recent call is another list, of a title and a name
C30_Witness ==
    /\ MaskReturned
    /\ ~held_log.is_none
    /\ held_log.addr # replacement_log
    /\ held_snapshot # <<>>
    /\ held_snapshot[1].replacement = <<NameMark>>
    /\ Len(log_heap[replacement_log]) = 2
    /\ log_heap[replacement_log][1].replacement = <<TitleMark>>
    /\ log_heap[replacement_log][2].replacement = <<SurnameMark, ".">>

====
